---- MODULE Spec2Model ----
(***************************************************************************)
(* Half-Atwood lab simulator: the window selector of graphs.js, the store  *)
(* and event wiring of app.js, the playback loop of machineView.js and the *)
(* pure numeric functions of physics.js, signals.js and regression.js.     *)
(*                                                                         *)
(* Numbers.  Times are integers counted in ticks of 1/300 s, so that the   *)
(* sample period (1/60 s), the nudge steps (0.02 s, 0.01 s), the minimum   *)
(* window width (0.12 s) and every phase constant of signals.js are whole  *)
(* numbers.  Physical quantities (N, kg, m/s^2) are exact fractions        *)
(* <<num, den>>; the samples of a trial are carried in milli-units         *)
(* (mN, mm/s).  Math.sqrt is taken to the tick, and the sin/exp ripple of  *)
(* signals.js (amplitude <= 0.04) and its Gaussian noise are not carried   *)
(* in the sample values.                                                   *)
(***************************************************************************)
EXTENDS Integers, Sequences, FiniteSets, TLC

\* JavaScript's null.  A nullable number n is carried as <<n>>, an interval
\* {startS, endS} as <<startS, endS>>, a nullable record r as <<r>>.
null == <<>>

-----------------------------------------------------------------------------
(* Exact fractions <<n, d>> with d > 0, always in lowest terms.            *)

Abs(x) == IF x < 0 THEN -x ELSE x

Min2(a, b) == IF a <= b THEN a ELSE b

Max2(a, b) == IF a >= b THEN a ELSE b

RECURSIVE Gcd(_, _)
Gcd(a, b) == IF b = 0 THEN a ELSE Gcd(b, a % b)

Frac(n, d) ==
    LET s == IF d < 0 THEN -1 ELSE 1
        g == Gcd(Abs(n), Abs(d))
    IN  IF n = 0 THEN <<0, 1>> ELSE <<(s * n) \div g, (s * d) \div g>>

FInt(k) == <<k, 1>>

\* The sum, over the least common denominator.
FAdd(a, b) ==
    LET g == Gcd(a[2], b[2])
    IN  Frac(a[1] * (b[2] \div g) + b[1] * (a[2] \div g), (a[2] \div g) * b[2])

FSub(a, b) == FAdd(a, <<-b[1], b[2]>>)

\* The product, cancelling across the two fractions before multiplying.
FMul(a, b) ==
    LET g1 == Gcd(Abs(a[1]), b[2])
        g2 == Gcd(Abs(b[1]), a[2])
    IN  IF a[1] = 0 \/ b[1] = 0 THEN <<0, 1>>
        ELSE <<(a[1] \div g1) * (b[1] \div g2), (a[2] \div g2) * (b[2] \div g1)>>

FDiv(a, b) == FMul(a, IF b[1] < 0 THEN <<-b[2], -b[1]>> ELSE <<b[2], b[1]>>)

FLe(a, b) == a[1] * b[2] <= b[1] * a[2]

FLt(a, b) == a[1] * b[2] < b[1] * a[2]

FMin(a, b) == IF FLe(a, b) THEN a ELSE b

FMax(a, b) == IF FLe(b, a) THEN a ELSE b

\* Largest integer not above the fraction.
FFloor(a) == a[1] \div a[2]

\* Math.floor(Math.sqrt(n)) for 0 <= n < 2^30, by bisection on lo..hi.
RECURSIVE ISqrtIn(_, _, _)
ISqrtIn(n, lo, hi) ==
    IF lo >= hi THEN lo
    ELSE LET mid == (lo + hi + 1) \div 2
         IN  IF mid * mid <= n THEN ISqrtIn(n, mid, hi) ELSE ISqrtIn(n, lo, mid - 1)

ISqrt(n) == ISqrtIn(n, 0, 32767)

-----------------------------------------------------------------------------
(* Units.                                                                  *)

SampleRateHz == 60

TicksPerSecond == SampleRateHz * 5

TicksPerSample == TicksPerSecond \div SampleRateHz

\* A duration written in milliseconds in the source, in ticks.
Ms(ms) == (ms * TicksPerSecond) \div 1000

\* A decimal of the source written in thousandths, as a fraction.
Milli(k) == Frac(k, 1000)

\* A fraction in milli-units, rounded down (the resolution of the samples).
RECURSIVE Digits(_, _, _, _)
Digits(acc, r, d, k) ==
    IF k = 0 THEN acc ELSE Digits(acc * 10 + (r * 10) \div d, (r * 10) % d, d, k - 1)

ToMilli(a) == Digits(a[1] \div a[2], a[1] % a[2], a[2], 3)

-----------------------------------------------------------------------------
(* presets.js                                                              *)

Scenarios == {"cart_only", "cart_plus_pad"}

PresetIds == <<"low", "medium", "high">>

PRESETS ==
    [low |->
        [id |-> "low", label |-> "Low Friction", noiseDefault |-> FALSE,
         cartMassKg |-> Milli(500), padMassKg |-> Milli(200),
         scenario |->
            [cart_only |-> [dragN |-> Milli(60), startThresholdN |-> Milli(40)],
             cart_plus_pad |-> [dragN |-> Milli(1050), startThresholdN |-> Milli(950)]]],
     medium |->
        [id |-> "medium", label |-> "Medium Friction", noiseDefault |-> FALSE,
         cartMassKg |-> Milli(500), padMassKg |-> Milli(220),
         scenario |->
            [cart_only |-> [dragN |-> Milli(90), startThresholdN |-> Milli(60)],
             cart_plus_pad |-> [dragN |-> Milli(1350), startThresholdN |-> Milli(1150)]]],
     high |->
        [id |-> "high", label |-> "High Friction", noiseDefault |-> TRUE,
         cartMassKg |-> Milli(500), padMassKg |-> Milli(240),
         scenario |->
            [cart_only |-> [dragN |-> Milli(120), startThresholdN |-> Milli(80)],
             cart_plus_pad |-> [dragN |-> Milli(1700), startThresholdN |-> Milli(1350)]]]]

HANGING_MASS_STEPS_KG ==
    <<Milli(100), Milli(200), Milli(300), Milli(400), Milli(500), Milli(600)>>

getPresetById(presetId) == PRESETS[presetId]

-----------------------------------------------------------------------------
(* physics.js                                                              *)

G == Frac(981, 100)

TRACK_LENGTH_M == Frac(12, 10)

\* The values of a function are passed on as arguments: the body of
\* getScenarioConfig, given the preset it looked up.
ScenarioConfigOf(input, preset) ==
    [scenario |-> input.scenario,
     presetId |-> preset.id,
     presetLabel |-> preset.label,
     cartMassKg |-> preset.cartMassKg,
     padMassKg |-> preset.padMassKg,
     systemMassKg |->
        IF input.scenario = "cart_plus_pad"
        THEN FAdd(preset.cartMassKg, preset.padMassKg)
        ELSE preset.cartMassKg,
     dragN |-> preset.scenario[input.scenario].dragN,
     startThresholdN |-> preset.scenario[input.scenario].startThresholdN]

getScenarioConfig(input) == ScenarioConfigOf(input, getPresetById(input.presetId))

\* Math.sqrt((2 * TRACK_LENGTH_M) / a), in ticks, to the tick.
TravelTime(accelerationMps2) ==
    ISqrt(FFloor(FMul(FDiv(FMul(FInt(2), TRACK_LENGTH_M), accelerationMps2),
                      FInt(TicksPerSecond * TicksPerSecond))))

\* A computeTrialPhysics whose second return keeps the acceleration it
\* computed.
PhysicsResultKeepsAcceleration(input, config, pullingForceN, netForceN, accelerationMps2) ==
    IF FLe(pullingForceN, config.startThresholdN)
    THEN [config |-> config, hangingMassKg |-> input.hangingMassKg,
          pullingForceN |-> pullingForceN, netForceN |-> FInt(0),
          accelerationMps2 |-> FInt(0), tensionN |-> pullingForceN,
          moved |-> FALSE, travelTimeS |-> null]
    ELSE IF FLe(accelerationMps2, FInt(0))
    THEN [config |-> config, hangingMassKg |-> input.hangingMassKg,
          pullingForceN |-> pullingForceN, netForceN |-> netForceN,
          accelerationMps2 |-> accelerationMps2, tensionN |-> pullingForceN,
          moved |-> FALSE, travelTimeS |-> null]
    ELSE [config |-> config, hangingMassKg |-> input.hangingMassKg,
          pullingForceN |-> pullingForceN, netForceN |-> netForceN,
          accelerationMps2 |-> accelerationMps2,
          tensionN |-> FAdd(FMul(config.systemMassKg, accelerationMps2), config.dragN),
          moved |-> TRUE, travelTimeS |-> <<TravelTime(accelerationMps2)>>]

\* The three returns of computeTrialPhysics, given its local constants.
PhysicsResult(input, config, pullingForceN, netForceN, accelerationMps2) ==
    IF FLe(pullingForceN, config.startThresholdN)
    THEN [config |-> config, hangingMassKg |-> input.hangingMassKg,
          pullingForceN |-> pullingForceN, netForceN |-> FInt(0),
          accelerationMps2 |-> FInt(0), tensionN |-> pullingForceN,
          moved |-> FALSE, travelTimeS |-> null]
    ELSE IF FLe(accelerationMps2, FInt(0))
    THEN [config |-> config, hangingMassKg |-> input.hangingMassKg,
          pullingForceN |-> pullingForceN, netForceN |-> netForceN,
          accelerationMps2 |-> FInt(0), tensionN |-> pullingForceN,
          moved |-> FALSE, travelTimeS |-> null]
    ELSE [config |-> config, hangingMassKg |-> input.hangingMassKg,
          pullingForceN |-> pullingForceN, netForceN |-> netForceN,
          accelerationMps2 |-> accelerationMps2,
          tensionN |-> FAdd(FMul(config.systemMassKg, accelerationMps2), config.dragN),
          moved |-> TRUE, travelTimeS |-> <<TravelTime(accelerationMps2)>>]

\* netForceN and accelerationMps2, given config and pullingForceN.
PhysicsOfForces(input, config, pullingForceN, netForceN) ==
    PhysicsResult(input, config, pullingForceN, netForceN,
                  FDiv(netForceN, FAdd(config.systemMassKg, input.hangingMassKg)))

PhysicsOfConfig(input, config, pullingForceN) ==
    PhysicsOfForces(input, config, pullingForceN, FSub(pullingForceN, config.dragN))

\* A computeTrialPhysics that reads the configuration of cart_only in both
\* scenarios.
computeTrialPhysicsOfCart(input) ==
    PhysicsOfConfig(input, getScenarioConfig([input EXCEPT !.scenario = "cart_only"]),
                    FMul(input.hangingMassKg, G))

computeTrialPhysics(input) ==
    PhysicsOfConfig(input, getScenarioConfig(input), FMul(input.hangingMassKg, G))

-----------------------------------------------------------------------------
(* signals.js                                                              *)

clamp(value, min, max) == Min2(max, Max2(min, value))

FClamp(value, min, max) == FMin(max, FMax(min, value))

DefaultDurationS == Ms(4500)

\* Ticks as a fraction of a second.
Seconds(ticks) == FDiv(ticks, FInt(TicksPerSecond))

\* The phase boundaries of generateTrialSignals, in ticks.
SignalPhases(physics, durationS) ==
    LET initialStartS == 0
        accelStartS == Ms(700)
        travel == IF physics.travelTimeS = null THEN Ms(1800) ELSE physics.travelTimeS[1]
        accelDurationS ==
            IF physics.moved THEN clamp((travel * 8) \div 10, Ms(1100), Ms(2000)) ELSE 0
        accelEndS ==
            IF physics.moved
            THEN clamp(accelStartS + accelDurationS, Ms(1800), durationS - Ms(1200))
            ELSE accelStartS
        rampWindowS ==
            IF physics.moved
            THEN FMin(FInt(Ms(240)),
                      FMax(FInt(Ms(120)), FMul(Frac(14, 100), FInt(accelDurationS))))
            ELSE FInt(0)
        stopDurationS == IF physics.moved THEN Ms(450) ELSE 0
        stopEndS ==
            IF physics.moved
            THEN clamp(accelEndS + stopDurationS, accelEndS + Ms(350), durationS - Ms(350))
            ELSE accelStartS + Ms(350)
    IN  [initialStartS |-> initialStartS,
         accelStartS |-> accelStartS,
         accelDurationS |-> accelDurationS,
         accelEndS |-> accelEndS,
         rampWindowS |-> rampWindowS,
         linearStartS |-> FAdd(FInt(accelStartS), rampWindowS),
         linearEndS |-> FSub(FInt(accelEndS), rampWindowS),
         stopDurationS |-> stopDurationS,
         stopEndS |-> stopEndS]

\* physics.accelerationMps2 * (accelEndS - accelStartS), in mm/s.
peakVelocity(physics, ph) ==
    IF physics.moved
    THEN (ToMilli(physics.accelerationMps2) * (ph.accelEndS - ph.accelStartS))
            \div TicksPerSecond
    ELSE 0

\* clamp(ticks / rampWindowS, 0, 1) in thousandths; ticks is a fraction of ticks.
RampU(ticks, ph) ==
    clamp(FFloor(FMul(FInt(1000), FDiv(ticks, ph.rampWindowS))), 0, 1000)

\* a * seconds in mm/s, for a time given as a fraction of ticks.
ATimes(physics, ticks) ==
    FFloor(FDiv(FMul(FInt(ToMilli(physics.accelerationMps2)), ticks),
                FInt(TicksPerSecond)))

\* The velocity of the constant-acceleration phase (accelStartS <= t <= accelEndS)
\* in mm/s: quadratic ramp in, linear segment, quadratic ramp out.
AccelPhaseVelocity(physics, ph, t) ==
    LET vRamp == ATimes(physics, ph.rampWindowS) \div 2
    IN  IF FLt(FInt(t), ph.linearStartS)
        THEN LET u == RampU(FInt(t - ph.accelStartS), ph)
             IN  (vRamp * u * u) \div 1000000
        ELSE IF FLe(FInt(t), ph.linearEndS)
        THEN vRamp + ATimes(physics, FSub(FInt(t), ph.linearStartS))
        ELSE LET u == RampU(FSub(FInt(t), ph.linearEndS), ph)
                 vLinear == vRamp + ATimes(physics, FSub(ph.linearEndS, ph.linearStartS))
             IN  vLinear
                   + (ATimes(physics, ph.rampWindowS) * (u - (u * u) \div 2000)) \div 1000

\* peak * Math.exp(-3.2 * dt) in mm/s: exp(-3.2/60) = 0.948 per sample period.
RECURSIVE ExpDecay(_, _)
ExpDecay(milli, samples) ==
    IF samples <= 0 THEN milli ELSE ExpDecay((milli * 948) \div 1000, samples - 1)

\* One force sample in mN at time t (ticks).
ForceSample(physics, ph, t) ==
    LET tensionN == ToMilli(physics.tensionN)
    IN  IF physics.moved
        THEN IF t < ph.accelStartS
             THEN LET phaseRatio == (t * 1000) \div ph.accelStartS
                  IN  (tensionN * (150 + (850 * phaseRatio) \div 1000)) \div 1000
             ELSE IF t <= ph.accelEndS
             THEN tensionN
             ELSE IF t <= ph.stopEndS
             THEN LET ratio == clamp(((t - ph.accelEndS) * 1000) \div ph.stopDurationS,
                                     0, 1000)
                  IN  ((1000 - ratio) * tensionN * 7) \div 10000
             ELSE 0
        ELSE (ToMilli(physics.pullingForceN) * 9) \div 10

\* One velocity sample in mm/s at time t (ticks).
VelocitySample(physics, ph, t) ==
    IF physics.moved
    THEN IF t < ph.accelStartS
         THEN 0
         ELSE IF t <= ph.accelEndS
         THEN AccelPhaseVelocity(physics, ph, t)
         ELSE IF t <= ph.stopEndS
         THEN ExpDecay(peakVelocity(physics, ph), (t - ph.accelEndS) \div TicksPerSample)
         ELSE 0
    ELSE 0

\* The samples are stored to 0.01 N and 0.01 m/s, the size of the ripple and
\* of the noise, which are left out of the sample values.
Centi(milli) == milli \div 10

\* What the loop pushes on the array named signal at time t.
SampleAt(physics, ph, signal, t) ==
    IF signal = "timesS" THEN t
    ELSE IF signal = "forceN" THEN Centi(ForceSample(physics, ph, t))
    ELSE Centi(VelocitySample(physics, ph, t))

\* The loop over the sample index: the array named signal.
SampleLoop(physics, ph, signal, count) ==
    [index \in 1..count |->
        SampleAt(physics, ph, signal, (index - 1) * TicksPerSample)] \o <<>>

\* Variant: a motionWindow whether or not the cart moved.
alwaysMotionWindow(physics, ph) == <<ph.accelStartS, ph.accelEndS>>

\* The motionWindow of the returned object.
motionWindowOf(physics, ph) ==
    IF physics.moved THEN <<ph.accelStartS, ph.accelEndS>> ELSE null

\* The object generateTrialSignals returns, given count and the phases.
SignalsOfPhases(physics, count, ph) ==
    [timesS |-> SampleLoop(physics, ph, "timesS", count),
     forceN |-> SampleLoop(physics, ph, "forceN", count),
     velocityMps |-> SampleLoop(physics, ph, "velocityMps", count),
     motionWindow |-> motionWindowOf(physics, ph),
     phases |->
        [initialStartS |-> ph.initialStartS, accelStartS |-> ph.accelStartS,
         accelEndS |-> ph.accelEndS, stopEndS |-> ph.stopEndS]]

SignalsOfDuration(physics, durationS) ==
    SignalsOfPhases(physics, (durationS \div TicksPerSample) + 1,
                    SignalPhases(physics, durationS))

\* options.durationS ?? 4.5
DurationOf(options) ==
    IF options.durationS = null THEN DefaultDurationS ELSE options.durationS[1]

generateTrialSignals(physics, options) == SignalsOfDuration(physics, DurationOf(options))

\* The noise of generateTrialSignals.  The generator computes on 32-bit
\* words; a word is the pair of its 16-bit halves, <<high, low>>.

\* seed >>> 0
ToUint32(n) == <<(n \div 65536) % 65536, n % 65536>>

\* a + b on 32 bits.
AddWord(a, b) ==
    <<(a[1] + b[1] + ((a[2] + b[2]) \div 65536)) % 65536, (a[2] + b[2]) % 65536>>

RECURSIVE XorBits(_, _, _)
XorBits(a, b, bits) ==
    IF bits = 0 THEN 0
    ELSE ((a + b) % 2) + 2 * XorBits(a \div 2, b \div 2, bits - 1)

\* a ^ b
XorWord(a, b) == <<XorBits(a[1], b[1], 16), XorBits(a[2], b[2], 16)>>

RECURSIVE OrBits(_, _, _)
OrBits(a, b, bits) ==
    IF bits = 0 THEN 0
    ELSE (IF a % 2 = 1 \/ b % 2 = 1 THEN 1 ELSE 0)
            + 2 * OrBits(a \div 2, b \div 2, bits - 1)

\* a | mask, for a mask under 2^16.
OrWord(a, mask) == <<a[1], OrBits(a[2], mask, 16)>>

\* a >>> k, for 0 < k < 16.
ShrWord(a, k) ==
    <<a[1] \div (2 ^ k), (a[2] \div (2 ^ k)) + (a[1] % (2 ^ k)) * (2 ^ (16 - k))>>

\* The product of two 16-bit numbers, a word: b is split in bytes, which
\* keeps every partial product under 2^24.
Mul16Parts(low, high) ==
    <<(((low + (high % 256) * 256) \div 65536) + (high \div 256)) % 65536,
      (low + (high % 256) * 256) % 65536>>

Mul16(a, b) == Mul16Parts(a * (b % 256), a * (b \div 256))

\* Math.imul(a, b), as a word.
imul(a, b) ==
    <<(Mul16(a[2], b[2])[1] + Mul16(a[1], b[2])[2] + Mul16(a[2], b[1])[2]) % 65536,
      Mul16(a[2], b[2])[2]>>

\* The three lines of the generator after state += 0x6d2b79f5, from the
\* state to the word it returns over 2^32.
Mix1(t) == imul(XorWord(t, ShrWord(t, 15)), OrWord(t, 1))

Mix2(t) == XorWord(t, AddWord(t, imul(XorWord(t, ShrWord(t, 7)), OrWord(t, 61))))

Mix3(t) == XorWord(t, ShrWord(t, 14))

\* createRng(seed), at its call number `call`: the state is the seed plus
\* `call` increments of 0x6d2b79f5, and the word returned is mixed from it.
createRng(seed, call) ==
    Mix3(Mix2(Mix1(AddWord(ToUint32(seed), imul(ToUint32(call), <<27947, 31221>>)))))

\* clamp(rng(), 1e-8, 1 - 1e-8) of a word over 2^32: <<0, 0, 0>> is 1e-8,
\* <<2, 0, 0>> is 1 - 1e-8, <<1, high, low>> is the word between them.
ClampUnit(word) ==
    IF word[1] = 0 /\ word[2] <= 42 THEN <<0, 0, 0>>
    ELSE IF word[1] = 65535 /\ word[2] >= 65494 THEN <<2, 0, 0>>
    ELSE <<1, word[1], word[2]>>

\* Variant: a sampler that draws noise whether or not noise is enabled.
alwaysNoiseSampler(presetSeed, noiseEnabled, scale, call) ==
    <<ClampUnit(createRng(presetSeed, call + 1)), createRng(presetSeed, call + 2), scale>>

\* buildNoiseSampler(presetSeed, noiseEnabled)(scale), `call` calls of the
\* generator after its creation.  The value is z * scale for the z that the
\* Box-Muller transform makes of u1 and u2; it is written <<u1, u2, scale>>,
\* scale in thousandths, and <<>> is the 0 of a disabled sampler.
buildNoiseSampler(presetSeed, noiseEnabled, scale, call) ==
    IF ~noiseEnabled THEN <<>>
    ELSE <<ClampUnit(createRng(presetSeed, call + 1)), createRng(presetSeed, call + 2),
           scale>>

\* The noise added to the samples of the array named signal: two calls of
\* the sampler to a sample, force first, two calls of the generator to each.
NoiseLoop(physics, options, signal, count) ==
    [index \in 1..count |->
        IF signal = "forceN"
        THEN buildNoiseSampler(options.seed, options.noiseEnabled,
                               IF physics.moved THEN 10 ELSE 15, 4 * (index - 1))
        ELSE buildNoiseSampler(options.seed, options.noiseEnabled,
                               IF physics.moved THEN 6 ELSE 3, 4 * (index - 1) + 2)] \o <<>>

\* forceN and velocityMps of generateTrialSignals(physics, options): the
\* samples before the noise, and the noise added to them.
NoisySignals(physics, options) ==
    [forceN |-> SignalsOfDuration(physics, DurationOf(options)).forceN,
     velocityMps |-> SignalsOfDuration(physics, DurationOf(options)).velocityMps,
     forceNoise |-> NoiseLoop(physics, options, "forceN",
                              (DurationOf(options) \div TicksPerSample) + 1),
     velocityNoise |-> NoiseLoop(physics, options, "velocityMps",
                                 (DurationOf(options) \div TicksPerSample) + 1)]

-----------------------------------------------------------------------------
(* regression.js, as the app reads it                                      *)

\* values[1] + ... + values[n].
\* The sum of a loop over values[1..n], eight iterations to a step.
RECURSIVE SumTo(_, _)
SumTo(values, n) ==
    IF n = 0 THEN 0
    ELSE IF n < 8 THEN values[n] + SumTo(values, n - 1)
    ELSE values[n] + values[n - 1] + values[n - 2] + values[n - 3] + values[n - 4]
            + values[n - 5] + values[n - 6] + values[n - 7] + SumTo(values, n - 8)

SumSeq(values) == SumTo(values, Len(values))

\* Not-a-number.
NaN == <<0, 0>>

\* floor(num * 10^digits / den) by long division, for den > 0.
Scaled(num, den, digits) == Digits(num \div den, num % den, den, digits)

\* mean(values) of samples in centi-units, as a number in micro-units.
mean(values) ==
    IF Len(values) = 0 THEN NaN ELSE <<Scaled(SumSeq(values), Len(values), 4)>>

\* sliceWindow: the parallel subsequences with start <= time <= end.
sliceWindow(times, values, startS, endS) ==
    LET start == Min2(startS, endS)
        end == Max2(startS, endS)
        keep == SelectSeq([i \in 1..Len(times) |-> i],
                          LAMBDA i : times[i] >= start /\ times[i] <= end)
    IN  [times |-> [k \in 1..Len(keep) |-> times[keep[k]]] \o <<>>,
         values |-> [k \in 1..Len(keep) |-> values[keep[k]]] \o <<>>]

\* n * (x[i] - xMean), the deviation from the mean scaled by the count n to
\* stay in the integers; sum is the sum of x.
Dev(x, sum, i) == Len(x) * x[i] - sum

\* The sum over i of (x[i] - xMean) * (y[i] - yMean), scaled by n * n.
SumDev(x, sumX, y, sumY, i) ==
    SumSeq([k \in 1..i |-> Dev(x, sumX, k) * Dev(y, sumY, k)] \o <<>>)

\* ssxx and ssxy of linearRegression, each scaled by n * n.
ssxx(x) == LET sumX == SumSeq(x) IN SumDev(x, sumX, x, sumX, Len(x))

ssxy(x, y) ==
    LET sumX == SumSeq(x)
        sumY == SumSeq(y)
    IN  SumDev(x, sumX, y, sumY, Len(x))

\* linearRegression returns a FitResult (not null).  ssxx, a sum of squares, is
\* 0 exactly when every deviation is.
FitExists(x, y) ==
    /\ Len(x) = Len(y)
    /\ Len(x) >= 2
    /\ LET sumX == SumSeq(x) IN \E i \in 1..Len(x) : Dev(x, sumX, i) # 0

\* slope = ssxy / ssxx, an exact fraction in (units of y) per (unit of x).
FitSlope(x, y) == Frac(ssxy(x, y), ssxx(x))

\* A slope in centi-units per sample period as a number in micro-units per
\* second.
SlopePerSecond(slope) ==
    LET perSecond == FMul(slope, FInt(SampleRateHz))
    IN  Scaled(perSecond[1], perSecond[2], 4)

-----------------------------------------------------------------------------
(* regression.js, in the arithmetic of its numbers                         *)

\* A natural number of any size is the sequence of its digits to the base
\* 2^14, the lowest first and the highest not 0; <<>> is 0.
Base == 2 ^ 14

RECURSIVE BTrim(_)
BTrim(a) ==
    IF a = <<>> THEN <<>>
    ELSE IF a[Len(a)] = 0 THEN BTrim(SubSeq(a, 1, Len(a) - 1))
    ELSE a

BDigit(a, i) == IF i <= Len(a) THEN a[i] ELSE 0

\* a + b, from digit i on with a carry.
RECURSIVE BAddFrom(_, _, _, _)
BAddFrom(a, b, i, carry) ==
    IF i > Len(a) /\ i > Len(b)
    THEN IF carry = 0 THEN <<>> ELSE <<carry>>
    ELSE <<(BDigit(a, i) + BDigit(b, i) + carry) % Base>>
            \o BAddFrom(a, b, i + 1, (BDigit(a, i) + BDigit(b, i) + carry) \div Base)

BAdd(a, b) == BAddFrom(a, b, 1, 0)

\* a - b for a >= b, from digit i on with a borrow.
RECURSIVE BSubFrom(_, _, _, _)
BSubFrom(a, b, i, borrow) ==
    IF i > Len(a) THEN <<>>
    ELSE <<(BDigit(a, i) - BDigit(b, i) - borrow) % Base>>
            \o BSubFrom(a, b, i + 1,
                        IF BDigit(a, i) - BDigit(b, i) - borrow < 0 THEN 1 ELSE 0)

BSub(a, b) == BTrim(BSubFrom(a, b, 1, 0))

\* -1, 0 or 1 as a is under, equal to or over b; from digit i down for two
\* numbers of the same length.
RECURSIVE BCmpFrom(_, _, _)
BCmpFrom(a, b, i) ==
    IF i = 0 THEN 0
    ELSE IF a[i] < b[i] THEN -1
    ELSE IF a[i] > b[i] THEN 1
    ELSE BCmpFrom(a, b, i - 1)

BCmp(a, b) ==
    IF Len(a) < Len(b) THEN -1
    ELSE IF Len(a) > Len(b) THEN 1
    ELSE BCmpFrom(a, b, Len(a))

\* a * d for a digit d, from digit i on with a carry.
RECURSIVE BMulDigitFrom(_, _, _, _)
BMulDigitFrom(a, d, i, carry) ==
    IF i > Len(a)
    THEN IF carry = 0 THEN <<>> ELSE <<carry>>
    ELSE <<(a[i] * d + carry) % Base>>
            \o BMulDigitFrom(a, d, i + 1, (a[i] * d + carry) \div Base)

BMulDigit(a, d) == BTrim(BMulDigitFrom(a, d, 1, 0))

\* a * b, the digits of a from i on.
RECURSIVE BMulFrom(_, _, _)
BMulFrom(a, b, i) ==
    IF i > Len(a) THEN <<>>
    ELSE BAdd(BMulDigit(b, a[i]), <<0>> \o BMulFrom(a, b, i + 1))

BMul(a, b) == BTrim(BMulFrom(a, b, 1))

\* a * 2^k
BShl(a, k) ==
    BTrim([i \in 1..(k \div 14) |-> 0] \o BMulDigit(a, 2 ^ (k % 14)))

\* floor(a / 2^k)
BShrDigits(a, bits) ==
    BTrim([i \in 1..Len(a) |->
            (a[i] \div (2 ^ bits)) + (BDigit(a, i + 1) % (2 ^ bits)) * (2 ^ (14 - bits))])

BShr(a, k) ==
    IF k \div 14 >= Len(a) THEN <<>>
    ELSE BShrDigits(SubSeq(a, (k \div 14) + 1, Len(a)), k % 14)

\* The number of bits of a digit, and of a number.
RECURSIVE DigitBits(_)
DigitBits(d) == IF d = 0 THEN 0 ELSE 1 + DigitBits(d \div 2)

BBits(a) == IF a = <<>> THEN 0 ELSE 14 * (Len(a) - 1) + DigitBits(a[Len(a)])

\* The digits of a natural number of the model checker.
RECURSIVE BOfNat(_)
BOfNat(n) == IF n = 0 THEN <<>> ELSE <<n % Base>> \o BOfNat(n \div Base)

\* A Number is sign, exp and mant for (-1)^sign * mant * 2^exp, with mant of
\* 53 bits; the bounds of the exponent are out of the reach of the numbers
\* of the model.  0 has no digits, and the quotient of a division by 0 is
\* the one Number with no digits and the exponent -1.
Zero64 == [sign |-> 0, exp |-> 0, mant |-> <<>>]

DivByZero64 == [sign |-> 0, exp |-> -1, mant |-> <<>>]

\* The Number of 53 bits or of 54 after rounding up.
Rounded53(sign, kept, exp) ==
    IF BBits(kept) > 53
    THEN [sign |-> sign, exp |-> exp + 1, mant |-> BShr(kept, 1)]
    ELSE [sign |-> sign, exp |-> exp, mant |-> kept]

\* The 53 highest bits of n, rounded by what is left under them (-1, 0 or 1
\* as it is under, equal to or over one half) to the nearest, to even on
\* one half; sticky says that still lower bits were left out of n.
RoundKept(sign, kept, exp, left, sticky) ==
    Rounded53(sign,
              IF left > 0 \/ (left = 0 /\ (sticky \/ kept[1] % 2 = 1))
              THEN BAdd(kept, <<1>>) ELSE kept,
              exp)

RoundShift(sign, n, exp, shift, kept, sticky) ==
    RoundKept(sign, kept, exp + shift,
              BCmp(BSub(n, BShl(kept, shift)), BShl(<<1>>, shift - 1)), sticky)

\* The Number nearest to (-1)^sign * n * 2^exp.
Round64(sign, n, exp, sticky) ==
    IF n = <<>> THEN Zero64
    ELSE IF BBits(n) <= 53
    THEN [sign |-> sign, exp |-> exp - (53 - BBits(n)), mant |-> BShl(n, 53 - BBits(n))]
    ELSE RoundShift(sign, n, exp, BBits(n) - 53, BShr(n, BBits(n) - 53), sticky)

FromInt64(n) == Round64(IF n < 0 THEN 1 ELSE 0, BOfNat(IF n < 0 THEN -n ELSE n), 0, FALSE)

Neg64(a) == IF a.mant = <<>> THEN a ELSE [a EXCEPT !.sign = 1 - a.sign]

\* a + b of two numbers n * 2^exp of the same exponent.
AddAligned(signA, n, signB, m, exp) ==
    IF signA = signB THEN Round64(signA, BAdd(n, m), exp, FALSE)
    ELSE IF BCmp(n, m) = 0 THEN Zero64
    ELSE IF BCmp(n, m) > 0 THEN Round64(signA, BSub(n, m), exp, FALSE)
    ELSE Round64(signB, BSub(m, n), exp, FALSE)

\* a + b
Add64(a, b) ==
    IF a = DivByZero64 \/ b = DivByZero64 THEN DivByZero64
    ELSE IF a.mant = <<>> THEN b
    ELSE IF b.mant = <<>> THEN a
    ELSE AddAligned(a.sign, BShl(a.mant, a.exp - Min2(a.exp, b.exp)),
                    b.sign, BShl(b.mant, b.exp - Min2(a.exp, b.exp)),
                    Min2(a.exp, b.exp))

\* a - b
Sub64(a, b) == Add64(a, Neg64(b))

\* a * b
Mul64(a, b) ==
    IF a = DivByZero64 \/ b = DivByZero64 THEN DivByZero64
    ELSE IF a.mant = <<>> \/ b.mant = <<>> THEN Zero64
    ELSE Round64((a.sign + b.sign) % 2, BMul(a.mant, b.mant), a.exp + b.exp, FALSE)

\* Long division, a bit to a step, until the quotient has 56 bits:
\* <<quotient, remainder>>.
RECURSIVE DivSteps(_, _, _)
DivSteps(quotient, remainder, divisor) ==
    IF BBits(quotient) >= 56 THEN <<quotient, remainder>>
    ELSE IF BCmp(BShl(remainder, 1), divisor) >= 0
    THEN DivSteps(BAdd(BShl(quotient, 1), <<1>>), BSub(BShl(remainder, 1), divisor),
                  divisor)
    ELSE DivSteps(BShl(quotient, 1), BShl(remainder, 1), divisor)

DivRounded(sign, exp, result) == Round64(sign, result[1], exp, result[2] # <<>>)

\* a / b: the quotient of the two mant has its first bit at once or after
\* one step.
Div64(a, b) ==
    IF a = DivByZero64 \/ b = DivByZero64 \/ b.mant = <<>> THEN DivByZero64
    ELSE IF a.mant = <<>> THEN Zero64
    ELSE IF BCmp(a.mant, b.mant) >= 0
    THEN DivRounded((a.sign + b.sign) % 2, a.exp - b.exp - 55,
                    DivSteps(<<1>>, BSub(a.mant, b.mant), b.mant))
    ELSE DivRounded((a.sign + b.sign) % 2, a.exp - b.exp - 56,
                    DivSteps(<<>>, a.mant, b.mant))

\* a < b
Less64(a, b) == Sub64(a, b).sign = 1

\* The Number of the decimal numeral for num / den.
Decimal64(num, den) == Div64(FromInt64(num), FromInt64(den))

\* values.reduce((sum, value) => sum + value, 0) over values[1..n].
RECURSIVE Sum64(_, _)
Sum64(values, n) ==
    IF n = 0 THEN Zero64 ELSE Add64(Sum64(values, n - 1), values[n])

\* mean(values): the sum over the length; Number.NaN of an empty array is
\* carried as the Number of a division by zero.
mean64(values) ==
    IF Len(values) = 0 THEN DivByZero64
    ELSE Div64(Sum64(values, Len(values)), FromInt64(Len(values)))

\* The loop's dx (dy) of every index: x[index] - xMean.
Deviations64(x, xMean) == [i \in 1..Len(x) |-> Sub64(x[i], xMean)] \o <<>>

\* The loop's sum of dx * dy over the indexes 1..n, added up from 0.
RECURSIVE SumProducts64(_, _, _)
SumProducts64(dx, dy, n) ==
    IF n = 0 THEN Zero64
    ELSE Add64(SumProducts64(dx, dy, n - 1), Mul64(dx[n], dy[n]))

\* The second loop's error of every index: y[index] - (slope * x[index] +
\* intercept).
Errors64(x, y, slope, intercept) ==
    [i \in 1..Len(x) |-> Sub64(y[i], Add64(Mul64(slope, x[i]), intercept))] \o <<>>

\* residual: the sum of the squared errors, a square being the product of the
\* error with itself.
Residual64(errors) == SumProducts64(errors, errors, Len(errors))

\* r2 = sst === 0 ? 1 : 1 - residual / sst
r2Of(residual, sst) ==
    IF sst = Zero64 THEN FromInt64(1) ELSE Sub64(FromInt64(1), Div64(residual, sst))

\* The FitResult of the slope and the intercept.
FitOfLine(x, y, sst, slope, intercept) ==
    <<[slope |-> slope,
       intercept |-> intercept,
       r2 |-> r2Of(Residual64(Errors64(x, y, slope, intercept)), sst),
       count |-> Len(x)]>>

\* A fit whose intercept is yMean.
FitOfSlopeAtMean(x, y, xMean, yMean, sst, slope) == FitOfLine(x, y, sst, slope, yMean)

\* intercept = yMean - slope * xMean
FitOfSlope(x, y, xMean, yMean, sst, slope) ==
    FitOfLine(x, y, sst, slope, Sub64(yMean, Mul64(slope, xMean)))

\* if (ssxx === 0) return null; slope = ssxy / ssxx
FitOfSums(x, y, xMean, yMean, sumXX, sumXY, sst) ==
    IF sumXX = Zero64 THEN null
    ELSE FitOfSlope(x, y, xMean, yMean, sst, Div64(sumXY, sumXX))

\* The first loop: ssxx, ssxy and sst of the deviations.
FitOfDeviations(x, y, xMean, yMean, dx, dy) ==
    FitOfSums(x, y, xMean, yMean,
              SumProducts64(dx, dx, Len(x)),
              SumProducts64(dx, dy, Len(x)),
              SumProducts64(dy, dy, Len(x)))

FitOfMeans(x, y, xMean, yMean) ==
    FitOfDeviations(x, y, xMean, yMean, Deviations64(x, xMean), Deviations64(y, yMean))

\* linearRegression(x, y): null, or the FitResult in a tuple of one.
linearRegression(x, y) ==
    IF Len(x) # Len(y) \/ Len(x) < 2 THEN null
    ELSE FitOfMeans(x, y, mean64(x), mean64(y))

\* Math.min and Math.max of two numbers.
Min64(a, b) == IF Less64(b, a) THEN b ELSE a

Max64(a, b) == IF Less64(a, b) THEN b ELSE a

\* The indexes the loop of sliceWindow pushes: time >= start && time <= end.
SelectedIndexes(times, start, end) ==
    SelectSeq([i \in 1..Len(times) |-> i] \o <<>>,
              LAMBDA i : ~Less64(times[i], start) /\ ~Less64(end, times[i]))

\* selectedTimes and selectedValues of the indexes pushed.
SelectedAt(times, values, indexes) ==
    [times |-> [k \in 1..Len(indexes) |-> times[indexes[k]]] \o <<>>,
     values |-> [k \in 1..Len(indexes) |-> values[indexes[k]]] \o <<>>]

\* A slice that leaves out the samples at the end of the window.
sliceWindowBeforeEnd(times, values, startS, endS) ==
    SelectedAt(times, values,
               SelectSeq(SelectedIndexes(times, Min64(startS, endS), Max64(startS, endS)),
                         LAMBDA i : times[i] # Max64(startS, endS)))

\* sliceWindow(times, values, startS, endS) on numbers.
sliceWindow64(times, values, startS, endS) ==
    SelectedAt(times, values,
               SelectedIndexes(times, Min64(startS, endS), Max64(startS, endS)))

\* meanInWindow(times, values, startS, endS)
meanInWindow(times, values, startS, endS) ==
    mean64(sliceWindow64(times, values, startS, endS).values)

\* linearRegression(selected.times, selected.values)
FitOfSelected(selected) == linearRegression(selected.times, selected.values)

\* linearRegressionInWindow(times, values, startS, endS)
linearRegressionInWindow(times, values, startS, endS) ==
    FitOfSelected(sliceWindow64(times, values, startS, endS))

-----------------------------------------------------------------------------
(* app.js: helpers                                                         *)

MIN_SELECTION_WIDTH_S == Ms(120)

MIN_POINTS == 6

\* Variant: every preset is offered for both scenarios.
availablePresetsOfAll(scenario) == PresetIds

availablePresets(scenario) ==
    IF scenario = "cart_only"
    THEN SelectSeq(PresetIds, LAMBDA id : id = "low")
    ELSE PresetIds

\* Math.round(value * 10^digits) / 10^digits for a number in micro-units.
roundTo(value, digits) ==
    LET unit == IF digits = 3 THEN 1000 ELSE IF digits = 4 THEN 100 ELSE 1
    IN  ((2 * value + unit) \div (2 * unit)) * unit

\* roundTo(t, 3) for a time in ticks, as milliseconds.
roundTicks(ticks) == (2 * ticks * 1000 + TicksPerSecond) \div (2 * TicksPerSecond)

isValidSelection(selection) ==
    IF selection = null THEN FALSE
    ELSE Abs(selection[2] - selection[1]) >= MIN_SELECTION_WIDTH_S

\* A normalize that returns the two bounds as they are.
normalizeAsGiven(selection) == selection

normalize(selection) ==
    <<Min2(selection[1], selection[2]), Max2(selection[1], selection[2])>>

-----------------------------------------------------------------------------
(* graphs.js: TimeSeriesGraph.  A graph is a record; its field times is    *)
(* the number of samples it shows, which are the first samples of the      *)
(* trial: times[i] = (i - 1) * TicksPerSample.  A selection is null or the *)
(* pair <<startS, endS>> in ticks.                                         *)

MARGIN == [left |-> 74, right |-> 20, top |-> 30, bottom |-> 38]

DevicePixelRatio == 1

\* canvas.width: the plot area is one pixel per sample period of a full trial.
CanvasWidth ==
    (MARGIN.left + MARGIN.right) * DevicePixelRatio + DefaultDurationS \div TicksPerSample

GraphIds == {"force", "velocity"}

\* Variant: the selection as it was built, bounds in the order of the drag.
rawSelection(selection) == selection

normalizeSelection(selection) ==
    IF selection = null THEN null
    ELSE <<Min2(selection[1], selection[2]), Max2(selection[1], selection[2])>>

\* The fields of this.bounds that render() derives from the data.
RenderBounds(times) ==
    [xMin |-> 0,
     xMax |-> IF times > 0 THEN (times - 1) * TicksPerSample ELSE DefaultDurationS,
     plotLeft |-> MARGIN.left * DevicePixelRatio,
     plotRight |-> CanvasWidth - MARGIN.right * DevicePixelRatio]

\* The graph after its constructor.
NewGraph ==
    [times |-> 0, motionWindow |-> null, selection |-> null, dragMode |-> null,
     draggingPointerId |-> null,
     bounds |-> [xMin |-> 0, xMax |-> DefaultDurationS, plotLeft |-> 0, plotRight |-> 0]]

\* Variant: new data under the selection that the graph has.
setDataKeepsSelection(gr, payload) ==
    [gr EXCEPT !.times = payload.timesS,
               !.motionWindow = payload.motionWindow,
               !.bounds = RenderBounds(payload.timesS)]

setData(gr, payload) ==
    [gr EXCEPT !.times = payload.timesS,
               !.motionWindow = payload.motionWindow,
               !.selection = normalizeSelection(payload.selection),
               !.bounds = RenderBounds(payload.timesS)]

\* pxToX, to the tick.
pxToX(bounds, px) ==
    LET plotWidth == bounds.plotRight - bounds.plotLeft
        width == IF plotWidth = 0 THEN 1 ELSE plotWidth
    IN  bounds.xMin + ((px - bounds.plotLeft) * (bounds.xMax - bounds.xMin)) \div width

\* |pointerX - xToPx(timeS)| multiplied by the span of the x axis, which keeps
\* the comparison of two distances, or of a distance and a threshold, exact.
SpanOf(bounds) ==
    IF bounds.xMax - bounds.xMin = 0 THEN 1 ELSE bounds.xMax - bounds.xMin

xDistance(bounds, pointerX, timeS) ==
    Abs((pointerX - bounds.plotLeft) * SpanOf(bounds)
          - (timeS - bounds.xMin) * (bounds.plotRight - bounds.plotLeft))

\* Variant: the start handle whenever it is in reach, the end handle otherwise.
detectStartFirst(gr, pointerX) ==
    IF gr.selection = null THEN null
    ELSE IF xDistance(gr.bounds, pointerX, gr.selection[1])
                < 9 * DevicePixelRatio * SpanOf(gr.bounds)
    THEN <<"start">>
    ELSE IF xDistance(gr.bounds, pointerX, gr.selection[2])
                < 9 * DevicePixelRatio * SpanOf(gr.bounds)
    THEN <<"end">>
    ELSE null

detectHandle(gr, pointerX) ==
    IF gr.selection = null THEN null
    ELSE LET threshold == 9 * DevicePixelRatio * SpanOf(gr.bounds)
             distanceStart == xDistance(gr.bounds, pointerX, gr.selection[1])
             distanceEnd == xDistance(gr.bounds, pointerX, gr.selection[2])
         IN  IF distanceStart < threshold /\ distanceStart <= distanceEnd
             THEN <<"start">>
             ELSE IF distanceEnd < threshold THEN <<"end">> ELSE null

\* What a handler of the graph did: the graph it leaves, whether it invoked
\* onSelectionChange and with what, and whether it called render().
Effect(gr, called, arg, rendered) ==
    [graph |-> gr, called |-> called, arg |-> arg, rendered |-> rendered]

Ignored(gr) == Effect(gr, FALSE, null, FALSE)

\* Variant: the time under the pointer, wherever on the canvas it is.
unclampedPointerTime(gr, xPx) == pxToX(gr.bounds, xPx)

PointerTime(gr, xPx) == clamp(pxToX(gr.bounds, xPx), gr.bounds.xMin, gr.bounds.xMax)

\* Variant: a pointer-down away from the handles that keeps the selection
\* there is, if any.
handlePointerDownKeepsSelection(gr, pointerId, xPx) ==
    IF gr.times = 0 THEN Ignored(gr)
    ELSE IF detectHandle(gr, xPx) # null
    THEN Effect([gr EXCEPT !.dragMode = detectHandle(gr, xPx),
                           !.draggingPointerId = <<pointerId>>,
                           !.bounds = RenderBounds(gr.times)],
                FALSE, null, TRUE)
    ELSE IF gr.selection # null
    THEN Effect([gr EXCEPT !.dragMode = <<"new">>,
                           !.draggingPointerId = <<pointerId>>,
                           !.bounds = RenderBounds(gr.times)],
                TRUE, gr.selection, TRUE)
    ELSE Effect([gr EXCEPT !.dragMode = <<"new">>,
                           !.selection = <<PointerTime(gr, xPx), PointerTime(gr, xPx)>>,
                           !.draggingPointerId = <<pointerId>>,
                           !.bounds = RenderBounds(gr.times)],
                TRUE, <<PointerTime(gr, xPx), PointerTime(gr, xPx)>>, TRUE)

\* Variant: a pointer-down that does not look whether the graph has data.
handlePointerDownUnguarded(gr, pointerId, xPx) ==
    IF detectHandle(gr, xPx) # null
    THEN Effect([gr EXCEPT !.dragMode = detectHandle(gr, xPx),
                           !.draggingPointerId = <<pointerId>>,
                           !.bounds = RenderBounds(gr.times)],
                FALSE, null, TRUE)
    ELSE Effect([gr EXCEPT !.dragMode = <<"new">>,
                           !.selection = <<PointerTime(gr, xPx), PointerTime(gr, xPx)>>,
                           !.draggingPointerId = <<pointerId>>,
                           !.bounds = RenderBounds(gr.times)],
                TRUE, <<PointerTime(gr, xPx), PointerTime(gr, xPx)>>, TRUE)

handlePointerDown(gr, pointerId, xPx) ==
    IF gr.times = 0 THEN Ignored(gr)
    ELSE LET timeS == PointerTime(gr, xPx)
             handle == detectHandle(gr, xPx)
         IN  IF handle # null
             THEN Effect([gr EXCEPT !.dragMode = handle,
                                    !.draggingPointerId = <<pointerId>>,
                                    !.bounds = RenderBounds(gr.times)],
                         FALSE, null, TRUE)
             ELSE Effect([gr EXCEPT !.dragMode = <<"new">>,
                                    !.selection = <<timeS, timeS>>,
                                    !.draggingPointerId = <<pointerId>>,
                                    !.bounds = RenderBounds(gr.times)],
                         TRUE, <<timeS, timeS>>, TRUE)

\* Variant: a pointer-move that follows any pointer over the data, dragging
\* or not.
handlePointerMoveAnyPointer(gr, pointerId, xPx) ==
    IF gr.times = 0 THEN Ignored(gr)
    ELSE Effect([gr EXCEPT
                    !.selection =
                        normalizeSelection(
                            IF gr.selection = null
                            THEN <<PointerTime(gr, xPx), PointerTime(gr, xPx)>>
                            ELSE IF gr.dragMode = <<"start">>
                            THEN <<PointerTime(gr, xPx), gr.selection[2]>>
                            ELSE <<gr.selection[1], PointerTime(gr, xPx)>>),
                    !.bounds = RenderBounds(gr.times)],
                TRUE,
                normalizeSelection(
                    IF gr.selection = null
                    THEN <<PointerTime(gr, xPx), PointerTime(gr, xPx)>>
                    ELSE IF gr.dragMode = <<"start">>
                    THEN <<PointerTime(gr, xPx), gr.selection[2]>>
                    ELSE <<gr.selection[1], PointerTime(gr, xPx)>>),
                TRUE)

handlePointerMove(gr, pointerId, xPx) ==
    IF gr.draggingPointerId # <<pointerId>> \/ gr.times = 0 THEN Ignored(gr)
    ELSE LET timeS == PointerTime(gr, xPx)
             current == IF gr.selection = null THEN <<timeS, timeS>> ELSE gr.selection
             moved == IF gr.dragMode = <<"start">>
                      THEN <<timeS, current[2]>>
                      ELSE <<current[1], timeS>>
             selection == normalizeSelection(moved)
         IN  Effect([gr EXCEPT !.selection = selection,
                               !.bounds = RenderBounds(gr.times)],
                    TRUE, selection, TRUE)

\* Variant: a pointer-up that releases the drag of any pointer.
handlePointerUpAnyPointer(gr, pointerId) ==
    Effect([gr EXCEPT !.draggingPointerId = null, !.dragMode = null],
           FALSE, null, FALSE)

handlePointerUp(gr, pointerId) ==
    IF gr.draggingPointerId # <<pointerId>> THEN Ignored(gr)
    ELSE Effect([gr EXCEPT !.draggingPointerId = null, !.dragMode = null],
                FALSE, null, FALSE)

\* Variant: a clear that redraws and tells nobody.
clearSelectionSilently(gr) ==
    Effect([gr EXCEPT !.selection = null, !.bounds = RenderBounds(gr.times)],
           FALSE, null, TRUE)

clearSelection(gr) ==
    Effect([gr EXCEPT !.selection = null, !.bounds = RenderBounds(gr.times)],
           TRUE, null, TRUE)

\* 20 % of a span of ticks, to the tick.
Fifth(span) == (span * 2) \div 10

\* Variant: a nudge that seeds a missing selection from the time domain, with
\* or without a motion window.
nudgeSelectionFromDomain(gr, boundary, deltaS) ==
    IF gr.times = 0 THEN Ignored(gr)
    ELSE LET xMin == 0
             xMax == (gr.times - 1) * TicksPerSample
             seeded ==
                IF gr.selection # null THEN gr.selection
                ELSE LET width == Fifth(xMax - xMin)
                     IN  <<xMin + width, xMin + 2 * width>>
             moved == IF boundary = "start"
                      THEN <<clamp(seeded[1] + deltaS, xMin, xMax), seeded[2]>>
                      ELSE <<seeded[1], clamp(seeded[2] + deltaS, xMin, xMax)>>
             selection == normalizeSelection(moved)
         IN  Effect([gr EXCEPT !.selection = selection,
                               !.bounds = RenderBounds(gr.times)],
                    TRUE, selection, TRUE)

nudgeSelection(gr, boundary, deltaS) ==
    IF gr.times = 0 THEN Ignored(gr)
    ELSE LET xMin == 0
             xMax == (gr.times - 1) * TicksPerSample
             seeded ==
                IF gr.selection # null THEN gr.selection
                ELSE IF gr.motionWindow # null
                THEN LET span == gr.motionWindow[2] - gr.motionWindow[1]
                     IN  <<gr.motionWindow[1] + Fifth(span), gr.motionWindow[2] - Fifth(span)>>
                ELSE LET width == Fifth(xMax - xMin)
                     IN  <<xMin + width, xMin + 2 * width>>
             moved == IF boundary = "start"
                      THEN <<clamp(seeded[1] + deltaS, xMin, xMax), seeded[2]>>
                      ELSE <<seeded[1], clamp(seeded[2] + deltaS, xMin, xMax)>>
             selection == normalizeSelection(moved)
         IN  Effect([gr EXCEPT !.selection = selection,
                               !.bounds = RenderBounds(gr.times)],
                    TRUE, selection, TRUE)

\* Variant: the arrow keys nudge by the same step with and without Alt.
handleKeyDownCoarse(gr, key, altKey, shiftKey) ==
    IF key # "ArrowLeft" /\ key # "ArrowRight" THEN Ignored(gr)
    ELSE nudgeSelection(gr, IF shiftKey THEN "start" ELSE "end",
                        (IF key = "ArrowLeft" THEN -1 ELSE 1) * Ms(20))

\* handleKeyDown: the arrow keys nudge, every other key is ignored.
handleKeyDown(gr, key, altKey, shiftKey) ==
    IF key # "ArrowLeft" /\ key # "ArrowRight" THEN Ignored(gr)
    ELSE LET direction == IF key = "ArrowLeft" THEN -1 ELSE 1
             step == IF altKey THEN Ms(10) ELSE Ms(20)
             boundary == IF shiftKey THEN "start" ELSE "end"
         IN  nudgeSelection(gr, boundary, direction * step)

-----------------------------------------------------------------------------
(* state.js and app.js: the store and what the app computes from it.       *)

createInitialState ==
    [scenario |-> "cart_only",
     presetId |-> "low",
     hangingMassKg |-> Milli(100),
     noiseEnabled |-> FALSE,
     currentTrial |-> null,
     measurement |-> [forceWindow |-> null, velocityWindow |-> null,
                      forceMeanN |-> null, accelerationMps2 |-> null],
     trialRecords |-> <<>>,
     nextTrialId |-> 1]

\* currentTrial.signals is a function of currentTrial.physics (the ripple and
\* the noise are left out), so a trial carries its physics and its signals are
\* looked up here.
TrialOf(scenario, presetId, m) ==
    generateTrialSignals(
        computeTrialPhysics([scenario |-> scenario, presetId |-> presetId,
                             hangingMassKg |-> HANGING_MASS_STEPS_KG[m]]),
        [durationS |-> null])

\* The order of the scenarios and of the presets in the table of signals.
ScenarioOrder == <<"cart_only", "cart_plus_pad">>

PresetOrder == <<"low", "medium", "high">>

IndexOf(seq, value) == CHOOSE k \in 1..Len(seq) : seq[k] = value

TrialIndex(scenario, presetId, m) ==
    ((IndexOf(ScenarioOrder, scenario) - 1) * Len(PresetOrder)
        + IndexOf(PresetOrder, presetId) - 1) * Len(HANGING_MASS_STEPS_KG) + m

\* The signals of every trial the page can run, computed once.
TrialSignals ==
    [k \in 1..(Len(ScenarioOrder) * Len(PresetOrder) * Len(HANGING_MASS_STEPS_KG)) |->
        LET masses == Len(HANGING_MASS_STEPS_KG)
            group == (k - 1) \div masses
        IN  TrialOf(ScenarioOrder[(group \div Len(PresetOrder)) + 1],
                    PresetOrder[(group % Len(PresetOrder)) + 1],
                    ((k - 1) % masses) + 1)] \o <<>>

SignalsOf(trial) ==
    TrialSignals[TrialIndex(trial.physics.config.scenario, trial.physics.config.presetId,
                            IndexOf(HANGING_MASS_STEPS_KG, trial.physics.hangingMassKg))]

\* linearRegressionInWindow(...).slope when the fit is not null and counts at
\* least MIN_POINTS samples, in micro-units; null otherwise.  The times are
\* whole sample periods and the regression runs on them in that unit, which
\* keeps its sums small; the slope is then per sample period.
SlopeOver(periods, values) ==
    IF FitExists(periods, values) /\ Len(periods) >= MIN_POINTS
    THEN <<SlopePerSecond(FitSlope(periods, values))>>
    ELSE null

SlopeIn(selected) ==
    SlopeOver([k \in 1..Len(selected.times) |->
                    selected.times[k] \div TicksPerSample] \o <<>>,
              selected.values)

WindowSlope(timesS, values, startS, endS) ==
    SlopeIn(sliceWindow(timesS, values, startS, endS))

\* Variant: the mean of whatever samples the window holds.
NaiveMeanIn(signals, window) ==
    IF window = null THEN null
    ELSE mean(sliceWindow(signals.timesS, signals.forceN, window[1], window[2]).values)

naiveMeanForce(st) == NaiveMeanIn(SignalsOf(st.currentTrial[1]), st.measurement.forceWindow)

\* The forceMeanN and accelerationMps2 that updateMeasurementValues computes.
MeanIn(selected) ==
    IF Len(selected.values) >= MIN_POINTS THEN mean(selected.values) ELSE null

ForceMeanOver(signals, selection) ==
    MeanIn(sliceWindow(signals.timesS, signals.forceN, selection[1], selection[2]))

ForceMeanIn(signals, window) ==
    IF isValidSelection(window) THEN ForceMeanOver(signals, normalize(window)) ELSE null

MeasuredForce(st) == ForceMeanIn(SignalsOf(st.currentTrial[1]), st.measurement.forceWindow)

AccelerationOver(signals, selection) ==
    WindowSlope(signals.timesS, signals.velocityMps, selection[1], selection[2])

AccelerationIn(signals, window) ==
    IF isValidSelection(window) THEN AccelerationOver(signals, normalize(window)) ELSE null

MeasuredAcceleration(st) ==
    AccelerationIn(SignalsOf(st.currentTrial[1]), st.measurement.velocityWindow)

updateMeasurementValues(st) ==
    IF st.currentTrial = null
    THEN [st EXCEPT !.measurement.forceMeanN = null,
                    !.measurement.accelerationMps2 = null]
    ELSE [st EXCEPT !.measurement.forceMeanN = MeasuredForce(st),
                    !.measurement.accelerationMps2 = MeasuredAcceleration(st)]

\* Variant: a callback that stores the window and leaves the measurements
\* of the window before.
storeSelection(st, g, selection) ==
    IF g = "force"
    THEN [st EXCEPT !.measurement.forceWindow = selection]
    ELSE [st EXCEPT !.measurement.velocityWindow = selection]

\* Variant: both callbacks store their window as the forceWindow.
onSelectionChangeOfForce(st, g, selection) ==
    updateMeasurementValues([st EXCEPT !.measurement.forceWindow = selection])

\* The onSelectionChange callbacks of the two graphs.
onSelectionChange(st, g, selection) ==
    updateMeasurementValues(
        IF g = "force"
        THEN [st EXCEPT !.measurement.forceWindow = selection]
        ELSE [st EXCEPT !.measurement.velocityWindow = selection])

\* renderTrialProgress past its early return: the samples up to timeS and the
\* motion window clipped at timeS, given to the two graphs.
ShownWindow(clipped) ==
    IF clipped # null /\ clipped[2] > clipped[1] THEN clipped ELSE null

ProgressData(st, gs, visible, shown) ==
    [g \in GraphIds |->
        setData(gs[g],
                [timesS |-> visible, motionWindow |-> shown,
                 selection |-> IF g = "force" THEN st.measurement.forceWindow
                               ELSE st.measurement.velocityWindow])]

ProgressOf(st, gs, timeS, signals) ==
    ProgressData(st, gs,
                 Min2(Len(signals.timesS), Max2(0, timeS \div TicksPerSample) + 1),
                 ShownWindow(IF signals.motionWindow = null THEN null
                             ELSE <<signals.motionWindow[1],
                                    Min2(timeS, signals.motionWindow[2])>>))

\* renderTrialProgress: the two graphs after setData.
renderTrialProgress(st, gs, timeS, trial) ==
    IF trial = null
    THEN [g \in GraphIds |->
            setData(gs[g],
                    [timesS |-> 0, motionWindow |-> null,
                     selection |-> IF g = "force" THEN st.measurement.forceWindow
                                   ELSE st.measurement.velocityWindow])]
    ELSE ProgressOf(st, gs, timeS, SignalsOf(trial[1]))

\* The FitResult of linearRegression(x, y), identified by the samples it was
\* computed from; null where linearRegression returns null.
FitOver(x, y) ==
    IF FitExists(x, y) THEN <<[x |-> x, y |-> y, count |-> Len(x)]>> ELSE null

\* Variant: a fit over every record, whatever its scenario.
renderFitViewAllRecords(st) ==
    LET points == [i \in 1..Len(st.trialRecords) |->
                     [x |-> st.trialRecords[i].accel_mps2,
                      y |-> st.trialRecords[i].force_mean_N]]
        fit == IF Len(points) >= 2
               THEN FitOver([i \in 1..Len(points) |-> points[i].x],
                            [i \in 1..Len(points) |-> points[i].y])
               ELSE null
    IN  [points |-> points, fit |-> fit]

\* renderFitView: the payload of fitGraph.setData.
renderFitView(st) ==
    LET relevantRecords ==
            SelectSeq(st.trialRecords, LAMBDA record : record.scenario = st.scenario)
        points == [i \in 1..Len(relevantRecords) |->
                     [x |-> relevantRecords[i].accel_mps2,
                      y |-> relevantRecords[i].force_mean_N]]
        fit == IF Len(points) >= 2
               THEN FitOver([i \in 1..Len(points) |-> points[i].x],
                            [i \in 1..Len(points) |-> points[i].y])
               ELSE null
    IN  [points |-> points, fit |-> fit]

\* updateActionButtons: the Add Trial button is enabled.
canAddTrial(st) ==
    /\ st.currentTrial # null
    /\ st.currentTrial[1].physics.moved
    /\ st.measurement.forceMeanN # null
    /\ st.measurement.accelerationMps2 # null
    /\ isValidSelection(st.measurement.forceWindow)
    /\ isValidSelection(st.measurement.velocityWindow)

\* Variant: a handler that accepts any measured trial, moved or not.
acceptsMeasuredTrial(st) ==
    /\ st.currentTrial # null
    /\ st.measurement.forceMeanN # null
    /\ st.measurement.accelerationMps2 # null

\* The two early returns of the Add Trial handler.
addTrialAccepts(st) ==
    /\ st.currentTrial # null
    /\ st.currentTrial[1].physics.moved
    /\ st.measurement.forceMeanN # null
    /\ st.measurement.accelerationMps2 # null

\* Math.round(value * 10^3) for an exact fraction.
roundToMilli(value) == FFloor(FAdd(FMul(value, FInt(1000)), Frac(1, 2)))

\* The record the Add Trial handler builds.
NewRecord(st) ==
    LET forceWindow == normalize(st.measurement.forceWindow)
        velocityWindow == normalize(st.measurement.velocityWindow)
        preset == getPresetById(st.presetId)
    IN  [scenario |-> st.scenario,
         preset |-> preset.label,
         trial_id |-> st.currentTrial[1].id,
         hanging_mass_kg |-> roundToMilli(st.currentTrial[1].physics.hangingMassKg),
         force_mean_N |-> roundTo(st.measurement.forceMeanN[1], 4),
         accel_mps2 |-> roundTo(st.measurement.accelerationMps2[1], 4),
         moved |-> TRUE,
         force_window_start_s |-> roundTicks(forceWindow[1]),
         force_window_end_s |-> roundTicks(forceWindow[2]),
         vel_window_start_s |-> roundTicks(velocityWindow[1]),
         vel_window_end_s |-> roundTicks(velocityWindow[2]),
         noise_enabled |-> st.noiseEnabled]

-----------------------------------------------------------------------------
(* The state of the page.                                                  *)

VARIABLES
    state,          \* the store (state.js)
    graphs,         \* forceGraph and velocityGraph
    fitGraph,       \* the payload last given to fitGraph.setData
    machineView,    \* HalfAtwoodView: trial, currentTimeS, playing, lastFrame, slider max
    rafQueue,       \* animate callbacks requested and not yet run
    last,           \* history: what the last event did to a graph
    drag,           \* history: per graph, the gesture in progress
    trialRun,       \* history: the settings each trial was run under
    nudges,         \* history: arrow keys and nudge buttons handled
    generated       \* history: the calls made of a function of signals.js or regression.js

vars ==
    <<state, graphs, fitGraph, machineView, rafQueue, last, drag, trialRun, nudges, generated>>

\* Bounds of the exploration.
MaxTrials == 1

MaxRecords == 2

MaxNudges == 1

\* Trials run one after the other where a trial replaces a measured one.
MaxRuns == 2

MaxPendingFrames == 1

MaxMassIndex == 2

PointerIds == {1, 2}

\* Pointer positions in canvas pixels.  PressX and DragX are 0.4 s apart on
\* a trial played to its end; the windows they select on the velocity graph
\* stay under 1.2 s, which keeps the sums of the regression within the
\* integers of the model checker.
PressX == MARGIN.left + 50

DragX == MARGIN.left + 66

\* The first position is on the canvas, to the left of the plot.
SelectorXs == {MARGIN.left - 6, MARGIN.left + 50, MARGIN.left + 56, MARGIN.left + 100}

\* Seconds between two animation frames, and positions of the time slider.
FrameDts == {DefaultDurationS}

\* Frames of a playback in steps: none of the sums of 2 s and 3 s, from 0 or
\* from a position of the slider, is the 4.5 s of a trial.
PlayFrameDts == {0, Ms(2000), Ms(3000)}

PlaySliderTimes == {0, Ms(1800)}

\* Frames requested and not yet run, where the play button is clicked again
\* before the frame of the playback it paused has run.
MaxPlayFrames == 2

SliderTimes == {Ms(1800)}

\* A call of generateTrialSignals: its arguments, and the phases and the
\* motionWindow of what it returned.
Generated(physics, options) ==
    LET signals == generateTrialSignals(physics, options)
    IN  [physics |-> physics, options |-> options,
         phases |-> signals.phases, motionWindow |-> signals.motionWindow]

\* An event that left the selectors alone.
NoEvent == [op |-> "none", graph |-> "none", t |-> null,
            called |-> FALSE, arg |-> null, rendered |-> FALSE]

NoDrag == [g \in GraphIds |-> null]

Init ==
    /\ state = createInitialState
    /\ graphs = [g \in GraphIds |-> setData(NewGraph, [timesS |-> 0, motionWindow |-> null,
                                                        selection |-> null])]
    /\ fitGraph = renderFitView(createInitialState)
    /\ machineView = [trial |-> null, currentTimeS |-> 0, playing |-> FALSE,
                      lastFrame |-> null, timeSliderMax |-> null]
    /\ rafQueue = 0
    /\ last = NoEvent
    /\ drag = NoDrag
    /\ trialRun = <<>>
    /\ nudges = 0
    /\ generated = null

-----------------------------------------------------------------------------
(* Events on a graph.  The store's subscriber renderAll runs renderFitView *)
(* after every update of the store.                                        *)

GraphEvent(g, op, t, eff, gesture) ==
    /\ graphs' = [graphs EXCEPT ![g] = eff.graph]
    /\ state' = IF eff.called THEN onSelectionChange(state, g, eff.arg) ELSE state
    /\ fitGraph' = IF eff.called THEN renderFitView(state') ELSE fitGraph
    /\ last' = IF op = "none" THEN NoEvent
               ELSE [op |-> op, graph |-> g, t |-> t, called |-> eff.called,
                     arg |-> eff.arg, rendered |-> eff.rendered]
    /\ drag' = [drag EXCEPT ![g] = gesture]
    /\ UNCHANGED <<machineView, rafQueue, trialRun, generated>>

\* pointerdown on the canvas of graph g.
PointerDown(g, pointerId, xPx) ==
    LET gr == graphs[g]
        eff == handlePointerDown(gr, pointerId, xPx)
        timeS == PointerTime(gr, xPx)
        op == IF gr.times = 0 THEN "none" ELSE IF eff.called THEN "create" ELSE "grab"
        mode == eff.graph.dragMode
        gesture ==
            IF gr.times = 0 THEN drag[g]
            ELSE <<[mode |-> mode[1],
                    origin |-> timeS,
                    fixed |-> IF mode = <<"start">> THEN gr.selection[2]
                              ELSE IF mode = <<"end">> THEN gr.selection[1]
                              ELSE timeS]>>
    IN  /\ GraphEvent(g, op, <<timeS>>, eff, gesture)
        /\ UNCHANGED nudges

\* pointermove on the canvas of graph g.
PointerMove(g, pointerId, xPx) ==
    LET gr == graphs[g]
        eff == handlePointerMove(gr, pointerId, xPx)
    IN  /\ GraphEvent(g, IF eff.rendered THEN "move" ELSE "none",
                      <<PointerTime(gr, xPx)>>, eff, drag[g])
        /\ UNCHANGED nudges

\* pointerup or pointercancel on the canvas of graph g.
PointerUp(g, pointerId) ==
    LET gr == graphs[g]
        eff == handlePointerUp(gr, pointerId)
        accepted == gr.draggingPointerId = <<pointerId>>
    IN  /\ GraphEvent(g, IF accepted THEN "release" ELSE "none", null, eff,
                      IF accepted THEN null ELSE drag[g])
        /\ UNCHANGED nudges

Keys == {"ArrowLeft", "ArrowRight", "Enter"}

\* keydown on the canvas of graph g.
KeyDown(g, key, altKey, shiftKey) ==
    LET eff == handleKeyDown(graphs[g], key, altKey, shiftKey)
    IN  /\ nudges < MaxNudges
        /\ GraphEvent(g, IF eff.rendered THEN "nudge" ELSE "none", null, eff,
                      IF eff.rendered THEN null ELSE drag[g])
        /\ nudges' = nudges + 1

\* A click on one of the nudge buttons of the page.
NudgeButton(g, boundary, direction) ==
    LET eff == nudgeSelection(graphs[g], boundary, Ms(20) * direction)
    IN  /\ nudges < MaxNudges
        /\ GraphEvent(g, IF eff.rendered THEN "nudge" ELSE "none", null, eff,
                      IF eff.rendered THEN null ELSE drag[g])
        /\ nudges' = nudges + 1

\* graph.clearSelection().
ClearSelection(g) ==
    /\ GraphEvent(g, "clear", null, clearSelection(graphs[g]), null)
    /\ UNCHANGED nudges

-----------------------------------------------------------------------------
(* Events of the page and of the machine view.                             *)

\* change on the scenario select.
ScenarioChange(scenario) ==
    LET options == availablePresets(scenario)
        nextPresetId ==
            IF \E i \in 1..Len(options) : options[i] = state.presetId
            THEN state.presetId ELSE options[1]
        nextPreset == getPresetById(nextPresetId)
    IN  /\ scenario # state.scenario
        /\ state' = [state EXCEPT !.scenario = scenario,
                                  !.presetId = nextPresetId,
                                  !.noiseEnabled = nextPreset.noiseDefault]
        /\ fitGraph' = renderFitView(state')
        /\ last' = NoEvent
        /\ UNCHANGED <<graphs, machineView, rafQueue, drag, trialRun, nudges, generated>>

\* change on the preset select, which offers availablePresets(scenario) and is
\* disabled for cart_only.
PresetChange(presetId) ==
    LET options == availablePresets(state.scenario)
        preset == getPresetById(presetId)
    IN  /\ state.scenario # "cart_only"
        /\ \E i \in 1..Len(options) : options[i] = presetId
        /\ presetId # state.presetId
        /\ state' = [state EXCEPT !.presetId = preset.id,
                                  !.noiseEnabled = preset.noiseDefault]
        /\ fitGraph' = renderFitView(state')
        /\ last' = NoEvent
        /\ UNCHANGED <<graphs, machineView, rafQueue, drag, trialRun, nudges, generated>>

\* change on the hanging mass select.
MassChange(m) ==
    /\ HANGING_MASS_STEPS_KG[m] # state.hangingMassKg
    /\ state' = [state EXCEPT !.hangingMassKg = HANGING_MASS_STEPS_KG[m]]
    /\ fitGraph' = renderFitView(state')
    /\ last' = NoEvent
    /\ UNCHANGED <<graphs, machineView, rafQueue, drag, trialRun, nudges, generated>>

\* change on the noise checkbox, which shows state.noiseEnabled.
NoiseChange ==
    /\ state' = [state EXCEPT !.noiseEnabled = ~state.noiseEnabled]
    /\ fitGraph' = renderFitView(state')
    /\ last' = NoEvent
    /\ UNCHANGED <<graphs, machineView, rafQueue, drag, trialRun, nudges, generated>>

\* click on Run Trial: runTrial, with machineView.setTrial and startPlayback(true).
\* click on Run Trial, while the trials run number at most limit and the
\* frames requested and not yet run at most pending.
RunTrialWithin(limit, pending) ==
    LET physics == computeTrialPhysics([scenario |-> state.scenario,
                                        presetId |-> state.presetId,
                                        hangingMassKg |-> state.hangingMassKg])
        trial == <<[id |-> state.nextTrialId, physics |-> physics]>>
        started == [state EXCEPT !.currentTrial = trial,
                                 !.nextTrialId = state.nextTrialId + 1,
                                 !.measurement = createInitialState.measurement]
        timesS == SignalsOf(trial[1]).timesS
    IN  /\ state.nextTrialId <= limit
        /\ rafQueue < pending
        /\ machineView' = [trial |-> trial, currentTimeS |-> 0, playing |-> TRUE,
                           lastFrame |-> null, timeSliderMax |-> <<timesS[Len(timesS)]>>]
        /\ graphs' = renderTrialProgress(started, graphs, 0, trial)
        /\ rafQueue' = rafQueue + 1
        /\ state' = updateMeasurementValues(started)
        /\ fitGraph' = renderFitView(state')
        /\ trialRun' = Append(trialRun, [scenario |-> state.scenario,
                                         presetId |-> state.presetId,
                                         noiseEnabled |-> state.noiseEnabled])
        /\ generated' = <<Generated(physics, [durationS |-> null])>>
        /\ last' = NoEvent
        /\ drag' = NoDrag
        /\ UNCHANGED nudges

RunTrial == RunTrialWithin(MaxTrials, MaxPendingFrames)

\* click on the play button of the machine view, while the frames requested
\* and not yet run number at most pending.
PlayClickWithin(pending) ==
    /\ last' = NoEvent
    /\ IF machineView.trial = null
       THEN UNCHANGED <<machineView, rafQueue>>
       ELSE IF machineView.playing
       THEN /\ machineView' = [machineView EXCEPT !.playing = FALSE]
            /\ UNCHANGED rafQueue
       ELSE /\ rafQueue < pending
            /\ machineView' = [machineView EXCEPT !.playing = TRUE, !.lastFrame = null]
            /\ rafQueue' = rafQueue + 1
    /\ UNCHANGED <<state, graphs, fitGraph, drag, trialRun, nudges, generated>>

PlayClick == PlayClickWithin(MaxPendingFrames)

\* input on the time slider.
SliderInput(timeS) ==
    /\ machineView' = [machineView EXCEPT !.playing = FALSE, !.currentTimeS = timeS]
    /\ graphs' = renderTrialProgress(state, graphs, timeS, machineView.trial)
    /\ last' = NoEvent
    /\ drag' = NoDrag
    /\ UNCHANGED <<state, fitGraph, rafQueue, trialRun, nudges, generated>>

\* Variant: a frame that returns at once only where there is no trial.
frameReturnsWithoutTrial(view) == view.trial = null

\* The early return of animate.
frameReturns(view) == ~view.playing \/ view.trial = null

\* Variant: the cursor after a frame, as far as the frame takes it.
advanceUnclamped(currentTimeS, elapsed, maxTime) == currentTimeS + elapsed

\* Variant: a frame that leaves the cursor where it is.
advanceNowhere(currentTimeS, elapsed, maxTime) == clamp(currentTimeS, 0, maxTime)

\* The cursor after a frame.
advance(currentTimeS, elapsed, maxTime) == clamp(currentTimeS + elapsed, 0, maxTime)

\* An animation frame: animate(timestamp), dt after the previous frame.
Animate(dt) ==
    /\ rafQueue > 0
    /\ last' = NoEvent
    /\ IF frameReturns(machineView)
       THEN /\ rafQueue' = rafQueue - 1
            /\ UNCHANGED <<machineView, graphs, drag>>
       ELSE LET elapsed == IF machineView.lastFrame = null THEN 0 ELSE dt
                maxTime == machineView.timeSliderMax[1]
                timeS == advance(machineView.currentTimeS, elapsed, maxTime)
            IN  /\ machineView' = [machineView EXCEPT !.currentTimeS = timeS,
                                                      !.lastFrame = <<"frame">>,
                                                      !.playing = timeS < maxTime]
                /\ graphs' = renderTrialProgress(state, graphs, timeS, machineView.trial)
                /\ rafQueue' = IF timeS >= maxTime THEN rafQueue - 1 ELSE rafQueue
                /\ drag' = NoDrag
    /\ UNCHANGED <<state, fitGraph, trialRun, nudges, generated>>

\* click on Add Trial, which updateActionButtons enables when canAddTrial.
AddTrial ==
    /\ Len(state.trialRecords) < MaxRecords
    /\ IF addTrialAccepts(state)
       THEN /\ state' = [state EXCEPT
                            !.trialRecords = Append(state.trialRecords, NewRecord(state))]
            /\ fitGraph' = renderFitView(state')
       ELSE UNCHANGED <<state, fitGraph>>
    /\ last' = NoEvent
    /\ UNCHANGED <<graphs, machineView, rafQueue, drag, trialRun, nudges, generated>>

\* click on Clear Trials, enabled when there are records.
ClearTrials ==
    /\ Len(state.trialRecords) > 0
    /\ state' = [state EXCEPT !.trialRecords = <<>>]
    /\ fitGraph' = renderFitView(state')
    /\ last' = NoEvent
    /\ UNCHANGED <<graphs, machineView, rafQueue, drag, trialRun, nudges, generated>>

\* Variant: the remove button deletes the first record of the trial only.
RemoveFirstOfTrial(trialId) ==
    /\ \E i \in 1..Len(state.trialRecords) : state.trialRecords[i].trial_id = trialId
    /\ state' = [state EXCEPT !.trialRecords =
                    LET first == CHOOSE i \in 1..Len(state.trialRecords) :
                                    /\ state.trialRecords[i].trial_id = trialId
                                    /\ \A k \in 1..(i - 1) :
                                            state.trialRecords[k].trial_id # trialId
                    IN  SubSeq(state.trialRecords, 1, first - 1)
                            \o SubSeq(state.trialRecords, first + 1, Len(state.trialRecords))]
    /\ fitGraph' = renderFitView(state')
    /\ last' = NoEvent
    /\ UNCHANGED <<graphs, machineView, rafQueue, drag, trialRun, nudges, generated>>

\* click on the remove button of a row of the table.
RemoveTrial(trialId) ==
    /\ \E i \in 1..Len(state.trialRecords) : state.trialRecords[i].trial_id = trialId
    /\ state' = [state EXCEPT !.trialRecords =
                    SelectSeq(state.trialRecords, LAMBDA record : record.trial_id # trialId)]
    /\ fitGraph' = renderFitView(state')
    /\ last' = NoEvent
    /\ UNCHANGED <<graphs, machineView, rafQueue, drag, trialRun, nudges, generated>>

-----------------------------------------------------------------------------
(* Specifications.                                                         *)

\* The page with one pointer: trials of the two scenarios are run, played and
\* measured on both graphs.
Next ==
    \/ \E scenario \in Scenarios : ScenarioChange(scenario)
    \/ RunTrial
    \/ \E dt \in FrameDts : Animate(dt)
    \/ \E g \in GraphIds : PointerDown(g, 1, PressX)
    \/ \E g \in GraphIds : PointerMove(g, 1, DragX)
    \/ \E g \in GraphIds : PointerUp(g, 1)
    \/ \E g \in GraphIds : \E shiftKey \in BOOLEAN : KeyDown(g, "ArrowRight", FALSE, shiftKey)

Spec == Init /\ [][Next]_vars

\* The selector of the force graph, with two pointers and every key.
NextSel ==
    \/ RunTrial
    \/ \E dt \in FrameDts : Animate(dt)
    \/ \E pointerId \in PointerIds : \E xPx \in SelectorXs :
            PointerDown("force", pointerId, xPx)
    \/ \E pointerId \in PointerIds : \E xPx \in SelectorXs :
            PointerMove("force", pointerId, xPx)
    \/ \E pointerId \in PointerIds : PointerUp("force", pointerId)
    \/ \E key \in Keys : \E altKey, shiftKey \in BOOLEAN :
            KeyDown("force", key, altKey, shiftKey)
    \/ ClearSelection("force")

SpecSel == Init /\ [][NextSel]_vars

\* The page recording trials: the scenario, trials played to their end, one
\* gesture per graph, and the table of records.
NextRec ==
    \/ \E scenario \in Scenarios : ScenarioChange(scenario)
    \/ RunTrial
    \/ \E dt \in FrameDts : Animate(dt)
    \/ \E g \in GraphIds : PointerDown(g, 1, PressX)
    \/ \E g \in GraphIds : PointerMove(g, 1, DragX)
    \/ AddTrial
    \/ ClearTrials
    \/ \E trialId \in 1..MaxTrials : RemoveTrial(trialId)

SpecRec == Init /\ [][NextRec]_vars

\* A measured trial replaced by the next one: trials are run and played to
\* their end, and windows are selected on both graphs.
NextReset ==
    \/ RunTrialWithin(MaxRuns, MaxPendingFrames)
    \/ \E dt \in FrameDts : Animate(dt)
    \/ \E g \in GraphIds : PointerDown(g, 1, PressX)
    \/ \E g \in GraphIds : PointerMove(g, 1, DragX)

SpecReset == Init /\ [][NextReset]_vars

\* The table of records over two trials: each is run, played to its end,
\* measured and added, and rows of either are removed; at some point the
\* scenario is changed to the cart with the pad.
NextTable ==
    \/ ScenarioChange("cart_plus_pad")
    \/ RunTrialWithin(MaxRuns, MaxPendingFrames)
    \/ \E dt \in FrameDts : Animate(dt)
    \/ \E g \in GraphIds : PointerDown(g, 1, PressX)
    \/ \E g \in GraphIds : PointerMove(g, 1, DragX)
    \/ AddTrial
    \/ \E trialId \in 1..MaxRuns : RemoveTrial(trialId)

SpecTable == Init /\ [][NextTable]_vars

\* The settings: the scenario, the preset, the hanging mass and the noise are
\* changed, and trials are run under them.
NextSettings ==
    \/ \E scenario \in Scenarios : ScenarioChange(scenario)
    \/ \E k \in 1..Len(PresetIds) : PresetChange(PresetIds[k])
    \/ \E m \in 1..MaxMassIndex : MassChange(m)
    \/ NoiseChange
    \/ RunTrialWithin(MaxRuns, MaxPlayFrames)

SpecSettings == Init /\ [][NextSettings]_vars

\* The playback: trials are run, played in frames, paused and resumed with
\* the play button, and moved with the time slider.
NextPlay ==
    \/ RunTrialWithin(MaxRuns, MaxPlayFrames)
    \/ PlayClickWithin(MaxPlayFrames)
    \/ \E timeS \in PlaySliderTimes : SliderInput(timeS)
    \/ \E dt \in PlayFrameDts : Animate(dt)

SpecPlay == Init /\ [][NextPlay]_vars

\* The playback with frames that keep arriving: every frame after the first of
\* a playback comes a positive time after the one before, and a frame that was
\* requested is run in the end.
LiveFrameDts == {Ms(500), Ms(2000), Ms(3000)}

LiveSliderTimes == {0, Ms(1800), Ms(4000)}

NextLive ==
    \/ RunTrialWithin(MaxRuns, MaxPlayFrames)
    \/ PlayClickWithin(MaxPlayFrames)
    \/ \E timeS \in LiveSliderTimes : SliderInput(timeS)
    \/ \E dt \in LiveFrameDts : Animate(dt)

SpecLive ==
    Init /\ [][NextLive]_vars /\ WF_vars(\E dt \in LiveFrameDts : Animate(dt))

\* The events that reach a graph or the store's windows: pointer and arrow
\* keys on both graphs, Run Trial, frames and the time slider.
NextSync ==
    \/ RunTrial
    \/ \E dt \in FrameDts : Animate(dt)
    \/ \E timeS \in SliderTimes : SliderInput(timeS)
    \/ \E g \in GraphIds : PointerDown(g, 1, PressX)
    \/ \E g \in GraphIds : PointerMove(g, 1, DragX)
    \/ \E g \in GraphIds : PointerUp(g, 1)
    \/ \E g \in GraphIds : \E shiftKey \in BOOLEAN : KeyDown(g, "ArrowRight", FALSE, shiftKey)

SpecSync == Init /\ [][NextSync]_vars

\* generateTrialSignals as a function: results of computeTrialPhysics, moved
\* with any travelTimeS or not moved, and durations on both sides of the
\* default.
TravelTimes ==
    {null, <<Ms(500)>>, <<Ms(800)>>, <<Ms(1250)>>, <<Ms(1800)>>, <<Ms(2500)>>, <<Ms(3200)>>,
     <<Ms(4000)>>}

Durations == {<<Ms(1500)>>, <<Ms(1900)>>, <<Ms(2000)>>, <<Ms(3000)>>, <<Ms(4500)>>,
              <<Ms(6000)>>, null}

MovedPhysics ==
    {[computeTrialPhysics([scenario |-> "cart_only", presetId |-> "low",
                           hangingMassKg |-> HANGING_MASS_STEPS_KG[m]])
        EXCEPT !.travelTimeS = travel] :
        m \in 1..MaxMassIndex, travel \in TravelTimes}

\* Results of computeTrialPhysics for a cart that does not move: the pull of
\* the lightest hanging mass is under the drag of the pad (low) or under its
\* start threshold (medium).
StalledPhysics ==
    {computeTrialPhysics([scenario |-> "cart_plus_pad", presetId |-> presetId,
                          hangingMassKg |-> HANGING_MASS_STEPS_KG[1]]) :
        presetId \in {"low", "medium"}}

InitPhases ==
    /\ Init
    /\ generated = null

Generate(physics, options) ==
    /\ generated = null
    /\ generated' = <<Generated(physics, options)>>
    /\ UNCHANGED <<state, graphs, fitGraph, machineView, rafQueue, last, drag, trialRun,
                   nudges>>

NextPhases ==
    \E physics \in MovedPhysics \cup StalledPhysics : \E durationS \in Durations :
        Generate(physics, [durationS |-> durationS])

SpecPhases == InitPhases /\ [][NextPhases]_vars

\* generateTrialSignals called twice: a cart that moves and one that does
\* not, noise on and off, four seeds, the default duration and a short one.
NoiseSeeds == <<1, 42, 43, 99999>>

NoiseDurations == <<null, <<Ms(1500)>> >>

NoisePhysics ==
    <<computeTrialPhysics([scenario |-> "cart_only", presetId |-> "low",
                           hangingMassKg |-> HANGING_MASS_STEPS_KG[3]]),
      computeTrialPhysics([scenario |-> "cart_plus_pad", presetId |-> "medium",
                           hangingMassKg |-> HANGING_MASS_STEPS_KG[1]])>>

NoiseOptions ==
    [k \in 1..(2 * Len(NoiseSeeds) * Len(NoiseDurations)) |->
        [noiseEnabled |-> (k - 1) % 2 = 1,
         seed |-> NoiseSeeds[(((k - 1) \div 2) % Len(NoiseSeeds)) + 1],
         durationS |-> NoiseDurations[((k - 1) \div (2 * Len(NoiseSeeds))) + 1]]] \o <<>>

\* A call of generateTrialSignals: its arguments, and forceN and velocityMps
\* of what it returned.
Synthesized(physics, options) ==
    [physics |-> physics, options |-> options, signals |-> NoisySignals(physics, options)]

\* The calls, computed once.
SynthesizedRuns ==
    [k \in 1..(Len(NoisePhysics) * Len(NoiseOptions)) |->
        Synthesized(NoisePhysics[((k - 1) % Len(NoisePhysics)) + 1],
                    NoiseOptions[((k - 1) \div Len(NoisePhysics)) + 1])] \o <<>>

\* The k-th call is made, after at most one other.
Synthesize(k) ==
    /\ Len(generated) < 2
    /\ generated' = Append(generated, SynthesizedRuns[k])
    /\ UNCHANGED <<state, graphs, fitGraph, machineView, rafQueue, last, drag, trialRun,
                   nudges>>

NextNoise == \E k \in 1..Len(SynthesizedRuns) : Synthesize(k)

SpecNoise == InitPhases /\ [][NextNoise]_vars

\* linearRegression as a function: x and y of up to MaxPoints numbers each,
\* whole numbers and the decimal 0.1, of equal and of different lengths.
MaxPoints == 3

FitXNumbers == {Decimal64(1, 10), FromInt64(1), FromInt64(2)}

FitYNumbers == {Decimal64(1, 10), FromInt64(3)}

\* The arrays of up to n numbers out of values.
ArraysUpTo(values, n) == UNION {[1..k -> values] : k \in 0..n}

\* linearRegression(x, y) is called once.
LinearRegression(x, y) ==
    /\ generated = null
    /\ generated' = <<[x |-> x, y |-> y, result |-> linearRegression(x, y)]>>
    /\ UNCHANGED <<state, graphs, fitGraph, machineView, rafQueue, last, drag, trialRun,
                   nudges>>

NextFit ==
    \E x \in ArraysUpTo(FitXNumbers, MaxPoints) : \E y \in ArraysUpTo(FitYNumbers, MaxPoints) :
        LinearRegression(x, y)

SpecFit == InitPhases /\ [][NextFit]_vars

\* linearRegression on the points of a line y = m * x + b: whole m, b and x,
\* up to MaxPoints points, and the five points 0..4 of regression.test.js.
LineXs == {-3, -2, 1}

LineSlopes == {-3, 3}

LineIntercepts == {-3, 2}

LineArrays == {<<0, 1, 2, 3, 4>>} \cup (ArraysUpTo(LineXs, MaxPoints) \ ArraysUpTo(LineXs, 1))

\* The array of the numbers m * x[i] + b.
LineYs(x, m, b) == [i \in 1..Len(x) |-> FromInt64(m * x[i] + b)] \o <<>>

\* The array of whole numbers as numbers.
Numbers64(x) == [i \in 1..Len(x) |-> FromInt64(x[i])] \o <<>>

\* linearRegression(x, y) is called once, y being m * x + b.
FitLine(x, m, b) ==
    /\ generated = null
    /\ generated' = <<[x |-> x, m |-> m, b |-> b,
                       result |-> linearRegression(Numbers64(x), LineYs(x, m, b))]>>
    /\ UNCHANGED <<state, graphs, fitGraph, machineView, rafQueue, last, drag, trialRun,
                   nudges>>

NextLine ==
    \E x \in LineArrays : \E m \in LineSlopes : \E b \in LineIntercepts : FitLine(x, m, b)

SpecLine == InitPhases /\ [][NextLine]_vars

\* The functions of a window: the two series of regression.test.js and one
\* whose times are neither in order nor distinct; bounds on and between the
\* times and before them all.
WindowSeries ==
    {[times |-> Numbers64(<<0, 1, 2, 3, 4, 5>>), values |-> Numbers64(<<1, 3, 5, 7, 10, 13>>)],
     [times |-> <<FromInt64(0), Decimal64(1, 2), FromInt64(1), Decimal64(3, 2), FromInt64(2)>>,
      values |-> Numbers64(<<2, 4, 6, 8, 10>>)],
     [times |-> <<FromInt64(1), Decimal64(1, 2), FromInt64(1), FromInt64(3)>>,
      values |-> Numbers64(<<2, 4, 6, 9>>)]}

WindowBounds ==
    {FromInt64(-1), Decimal64(1, 2), FromInt64(1), Decimal64(3, 2), FromInt64(3)}

\* The call of a function of a window: its name, its arguments and what it
\* returned.
CallInWindow(name, series, startS, endS, result) ==
    [call |-> name, times |-> series.times, values |-> series.values,
     startS |-> startS, endS |-> endS, result |-> result]

\* sliceWindow is called once.
SliceWindow(series, startS, endS) ==
    /\ generated = null
    /\ generated' = <<CallInWindow("sliceWindow", series, startS, endS,
                                   sliceWindow64(series.times, series.values, startS, endS))>>
    /\ UNCHANGED <<state, graphs, fitGraph, machineView, rafQueue, last, drag, trialRun,
                   nudges>>

\* meanInWindow is called once.
MeanInWindow(series, startS, endS) ==
    /\ generated = null
    /\ generated' = <<CallInWindow("meanInWindow", series, startS, endS,
                                   meanInWindow(series.times, series.values, startS, endS))>>
    /\ UNCHANGED <<state, graphs, fitGraph, machineView, rafQueue, last, drag, trialRun,
                   nudges>>

\* linearRegressionInWindow is called once.
LinearRegressionInWindow(series, startS, endS) ==
    /\ generated = null
    /\ generated' = <<CallInWindow("linearRegressionInWindow", series, startS, endS,
                                   linearRegressionInWindow(series.times, series.values,
                                                            startS, endS))>>
    /\ UNCHANGED <<state, graphs, fitGraph, machineView, rafQueue, last, drag, trialRun,
                   nudges>>

NextWindow ==
    \E series \in WindowSeries : \E startS \in WindowBounds : \E endS \in WindowBounds :
        \/ SliceWindow(series, startS, endS)
        \/ MeanInWindow(series, startS, endS)
        \/ LinearRegressionInWindow(series, startS, endS)

SpecWindow == InitPhases /\ [][NextWindow]_vars

\* normalizeSelection (graphs.js) and normalize (app.js) as functions: the
\* intervals of two times out of eight, in both orders and of no width, and
\* for normalizeSelection no selection.
NormalizeTimes == {0, Ms(10), Ms(20), Ms(120), Ms(1000), Ms(1800), Ms(4500), Ms(5000)}

NormalizeInputs == {null} \cup (NormalizeTimes \X NormalizeTimes)

\* The function of the name, applied.
NormalizeBy(name, selection) ==
    IF name = "normalizeSelection" THEN normalizeSelection(selection) ELSE normalize(selection)

\* One of the two functions is called; normalize reads the bounds of its
\* argument and is not called without one.
Normalize(name, selection) ==
    /\ generated = null
    /\ name = "normalize" => selection # null
    /\ generated' = <<[call |-> name, selection |-> selection,
                       result |-> NormalizeBy(name, selection)]>>
    /\ UNCHANGED <<state, graphs, fitGraph, machineView, rafQueue, last, drag, trialRun,
                   nudges>>

\* The function is called again, on what it returned.
NormalizeAgain ==
    /\ Len(generated) = 1
    /\ generated' = Append(generated,
                           [call |-> generated[1].call, selection |-> generated[1].result,
                            result |-> NormalizeBy(generated[1].call, generated[1].result)])
    /\ UNCHANGED <<state, graphs, fitGraph, machineView, rafQueue, last, drag, trialRun,
                   nudges>>

NextNormalize ==
    \/ \E name \in {"normalizeSelection", "normalize"} : \E selection \in NormalizeInputs :
            Normalize(name, selection)
    \/ NormalizeAgain

SpecNormalize == InitPhases /\ [][NextNormalize]_vars

\* computeTrialPhysics as a function: both scenarios, the three presets, the
\* six hanging masses of the page and masses in grams on both sides of every
\* start threshold and of every drag.
PhysicsMassesG ==
    {0, 4, 5, 6, 8, 10, 12, 14, 50, 96, 108, 110, 116, 120, 136, 140, 172, 176}

PhysicsMasses ==
    {HANGING_MASS_STEPS_KG[k] : k \in 1..Len(HANGING_MASS_STEPS_KG)}
        \cup {Milli(grams) : grams \in PhysicsMassesG}

\* computeTrialPhysics(input) is called, after at most one other call.
ComputeTrialPhysics(input) ==
    /\ Len(generated) < 2
    /\ generated' = Append(generated, [input |-> input, result |-> computeTrialPhysics(input)])
    /\ UNCHANGED <<state, graphs, fitGraph, machineView, rafQueue, last, drag, trialRun,
                   nudges>>

NextPhysics ==
    \E scenario \in Scenarios : \E k \in 1..Len(PresetIds) : \E hangingMassKg \in PhysicsMasses :
        ComputeTrialPhysics([scenario |-> scenario, presetId |-> PresetIds[k],
                             hangingMassKg |-> hangingMassKg])

SpecPhysics == InitPhases /\ [][NextPhysics]_vars

-----------------------------------------------------------------------------
(* Properties of the window selector (SpecSel).                            *)

\* C1: while a new selection is dragged, the interval published after a move
\* to t is [min(t0, t), max(t0, t)], where t0 is the time of the pointer-down
\* that began the selection, also after the pointer crossed back over t0.
SelectionOriginStaysFixed ==
    \A g \in GraphIds :
        (last.op = "move" /\ last.graph = g /\ drag[g] # null /\ drag[g][1].mode = "new")
            => last.arg = <<Min2(drag[g][1].origin, last.t[1]),
                            Max2(drag[g][1].origin, last.t[1])>>

\* C2: while a handle is dragged, the bound that was not grabbed is one of
\* the two bounds of every published interval, also after the dragged handle
\* crossed it.
UngrabbedBoundStays ==
    \A g \in GraphIds :
        (last.op = "move" /\ last.graph = g /\ drag[g] # null
            /\ drag[g][1].mode \in {"start", "end"})
            => /\ last.arg # null
               /\ drag[g][1].fixed \in {last.arg[1], last.arg[2]}

\* C3: every interval handed to the selection callback by a pointer-down, a
\* pointer-move or a keyboard nudge has startS <= endS, or is null.
PublishedIntervalOrdered ==
    last.called => (last.arg = null \/ last.arg[1] <= last.arg[2])

\* A move published after the pointer went left of where the selection began.
PublishedLeftOfOrigin ==
    /\ last.op = "move"
    /\ last.called
    /\ drag[last.graph] # null
    /\ last.t[1] < drag[last.graph][1].origin
    /\ last.arg[1] = last.t[1]
    /\ last.arg[1] < last.arg[2]

\* C9, as stated: each of the six transitions of the selector redraws and
\* invokes the selection callback with the normalized interval or null.
EveryTransitionRedrawsAndPublishes ==
    last.op \in {"create", "grab", "move", "release", "nudge", "clear"}
        => /\ last.rendered
           /\ last.called
           /\ (last.arg = null \/ last.arg[1] <= last.arg[2])

\* C9: a pointer-down that creates a selection, a pointer-move while dragging
\* and a keyboard nudge redraw and invoke the selection callback with the
\* normalized interval now selected; clear redraws and invokes it with null;
\* a pointer-down that grabs a handle redraws without invoking the callback;
\* a pointer-up or cancel that releases the drag does neither.
TransitionsRedrawAndPublish ==
    /\ last.op \in {"create", "move", "nudge"}
        => /\ last.rendered
           /\ last.called
           /\ last.arg # null
           /\ last.arg[1] <= last.arg[2]
           /\ last.arg = graphs[last.graph].selection
    /\ last.op = "clear"
        => /\ last.rendered
           /\ last.called
           /\ last.arg = null
           /\ graphs[last.graph].selection = null
    /\ last.op = "grab" => (last.rendered /\ ~last.called)
    /\ last.op = "release" => (~last.rendered /\ ~last.called)

\* A handle was grabbed: the graph was drawn and nothing was published.
HandleGrabbed ==
    /\ last.op = "grab"
    /\ last.rendered
    /\ ~last.called
    /\ graphs[last.graph].dragMode \in {<<"start">>, <<"end">>}

-----------------------------------------------------------------------------
(* Properties of the measurements (Spec).                                  *)

\* C4: when a pointer-down that creates a selection, a pointer-move while
\* dragging or a keyboard nudge returns, the window stored for that graph is
\* the interval the handler published, and the stored forceMeanN (force
\* graph) or accelerationMps2 (velocity graph) is the value recomputed from
\* the current trial's signals over that interval.
MeasurementsFollowPublished ==
    last.op \in {"create", "move", "nudge"}
        => /\ last.called
           /\ state.currentTrial # null
           /\ last.graph = "force"
                => /\ state.measurement.forceWindow = last.arg
                   /\ state.measurement.forceMeanN =
                        MeasuredForce([state EXCEPT !.measurement.forceWindow = last.arg])
           /\ last.graph = "velocity"
                => /\ state.measurement.velocityWindow = last.arg
                   /\ state.measurement.accelerationMps2 =
                        MeasuredAcceleration(
                            [state EXCEPT !.measurement.velocityWindow = last.arg])

\* A move on the velocity graph published a window that has a slope.
MoveMeasuredAcceleration ==
    /\ last.op = "move"
    /\ last.graph = "velocity"
    /\ last.arg = state.measurement.velocityWindow
    /\ state.measurement.accelerationMps2 # null
    /\ state.measurement.accelerationMps2 # <<0>>

\* The window is on a trial, at least MIN_SELECTION_WIDTH_S wide and holds
\* at least MIN_POINTS of the trial's samples.
SufficientWindow(window) ==
    /\ state.currentTrial # null
    /\ window # null
    /\ Abs(window[2] - window[1]) >= Ms(120)
    /\ LET timesS == SignalsOf(state.currentTrial[1]).timesS
       IN  Cardinality({i \in 1..Len(timesS) :
                            /\ timesS[i] >= Min2(window[1], window[2])
                            /\ timesS[i] <= Max2(window[1], window[2])}) >= 6

\* C5: a non-null forceMeanN (accelerationMps2) implies a current trial and a
\* force (velocity) window that is non-null, at least 0.12 s wide and holds
\* at least 6 samples of the trial; any other window yields null, and no
\* measurement is ever NaN.
MinimumSampleGating ==
    /\ state.measurement.forceMeanN # null
        => SufficientWindow(state.measurement.forceWindow)
    /\ state.measurement.accelerationMps2 # null
        => SufficientWindow(state.measurement.velocityWindow)
    /\ ~SufficientWindow(state.measurement.forceWindow)
        => state.measurement.forceMeanN = null
    /\ ~SufficientWindow(state.measurement.velocityWindow)
        => state.measurement.accelerationMps2 = null
    /\ state.measurement.forceMeanN # NaN
    /\ state.measurement.accelerationMps2 # NaN

\* A force is measured while the velocity window is too narrow to measure.
MeasuredBesideNarrowWindow ==
    /\ state.measurement.forceMeanN # null
    /\ state.measurement.velocityWindow # null
    /\ state.measurement.velocityWindow[2] - state.measurement.velocityWindow[1] < Ms(120)
    /\ state.measurement.accelerationMps2 = null

-----------------------------------------------------------------------------
(* Properties of the records (SpecRec).                                    *)

\* C6: the scenario, the preset and the noise flag of every record are those
\* under which the trial it records was run.
RecordsKeepTrialSettings ==
    \A i \in 1..Len(state.trialRecords) :
        LET record == state.trialRecords[i]
            run == trialRun[record.trial_id]
        IN  /\ record.scenario = run.scenario
            /\ record.preset = getPresetById(run.presetId).label
            /\ record.noise_enabled = run.noiseEnabled

\* Every record has moved = true and windows with start <= end.
RecordsWellFormed ==
    \A i \in 1..Len(state.trialRecords) :
        LET record == state.trialRecords[i]
        IN  /\ record.moved
            /\ record.force_window_start_s <= record.force_window_end_s
            /\ record.vel_window_start_s <= record.vel_window_end_s

\* C7: trialRecords grows only by one record, and only in a state with a
\* current trial that moved and with forceMeanN and accelerationMps2 both
\* non-null; every record has moved = true and normalized windows.
AcceptTrialGating ==
    /\ [][Len(state'.trialRecords) > Len(state.trialRecords)
            => /\ state.currentTrial # null
               /\ state.currentTrial[1].physics.moved
               /\ state.measurement.forceMeanN # null
               /\ state.measurement.accelerationMps2 # null
               /\ Len(state'.trialRecords) = Len(state.trialRecords) + 1
               /\ SubSeq(state'.trialRecords, 1, Len(state.trialRecords))
                    = state.trialRecords]_vars
    /\ []RecordsWellFormed

\* A record was accepted: it is of a trial that moved, over a window that
\* has a width.
RecordAccepted ==
    /\ Len(state.trialRecords) > 0
    /\ state.trialRecords[1].force_window_start_s < state.trialRecords[1].force_window_end_s
    /\ state.trialRecords[1].moved

\* The records of the active scenario, in the order of trialRecords.
ActiveRecords ==
    SelectSeq(state.trialRecords, LAMBDA record : record.scenario = state.scenario)

\* C8: the points of the fit graph are the (accel_mps2, force_mean_N) pairs
\* of the records of the active scenario, each once and in order; its fit is
\* the regression over exactly these pairs, and null with fewer than 2.
FitOverActiveScenario ==
    LET xs == [k \in 1..Len(ActiveRecords) |-> ActiveRecords[k].accel_mps2]
        ys == [k \in 1..Len(ActiveRecords) |-> ActiveRecords[k].force_mean_N]
    IN  /\ Len(fitGraph.points) = Len(ActiveRecords)
        /\ \A k \in 1..Len(ActiveRecords) :
                fitGraph.points[k] = [x |-> xs[k], y |-> ys[k]]
        /\ Len(ActiveRecords) < 2 => fitGraph.fit = null
        /\ Len(ActiveRecords) >= 2 => fitGraph.fit = FitOver(xs, ys)
        /\ fitGraph.fit # null
            => (fitGraph.fit[1].x = xs /\ fitGraph.fit[1].y = ys
                    /\ fitGraph.fit[1].count = Len(ActiveRecords))

\* Two records of the active scenario are fitted.
TwoRecordsFitted ==
    /\ Len(ActiveRecords) = 2
    /\ fitGraph.fit # null
    /\ Len(fitGraph.points) = 2

-----------------------------------------------------------------------------
(* Properties of generateTrialSignals (SpecPhases).                        *)

\* C10: for a PhysicsResult that moved, with any travelTimeS and durationS,
\* initialStartS < accelStartS < accelEndS < stopEndS, and motionWindow is
\* {accelStartS, accelEndS}.
PhasesStrictlyOrdered ==
    (generated # null /\ generated[1].physics.moved)
        => LET phases == generated[1].phases
           IN  /\ phases.initialStartS < phases.accelStartS
               /\ phases.accelStartS < phases.accelEndS
               /\ phases.accelEndS < phases.stopEndS
               /\ generated[1].motionWindow = <<phases.accelStartS, phases.accelEndS>>

\* C11: when physics.moved is false the phases collapse to one instant:
\* accelStartS, accelEndS and stopEndS are the same timestamp.
PhasesCollapseWhenStalled ==
    (generated # null /\ ~generated[1].physics.moved)
        => /\ generated[1].phases.accelStartS = generated[1].phases.accelEndS
           /\ generated[1].phases.accelEndS = generated[1].phases.stopEndS

\* C12: generateTrialSignals returns motionWindow = {accelStartS, accelEndS}
\* when physics.moved, and null otherwise, for every physics and duration.
MotionWindowIffMoved ==
    generated # null
        => generated[1].motionWindow =
              IF generated[1].physics.moved
              THEN <<generated[1].phases.accelStartS, generated[1].phases.accelEndS>>
              ELSE null

\* Signals were generated for a cart that did not move, under a duration
\* other than the default.
StalledWithoutWindow ==
    /\ generated # null
    /\ ~generated[1].physics.moved
    /\ generated[1].options.durationS # null
    /\ generated[1].motionWindow = null

\* The phases of the last call of generateTrialSignals, ramp window included.
GeneratedPhases == SignalPhases(generated[1].physics, DurationOf(generated[1].options))

\* C14: for a moved trial the velocity that the ramp-in, linear, ramp-out
\* construction reaches at t = accelEndS is the peak velocity from which the
\* deceleration phase decays, acceleration * (accelEndS - accelStartS), to
\* the 5 mm/s that the flooring of the computation may take away.
VelocityContinuousAtAccelEnd ==
    (generated # null /\ generated[1].physics.moved)
        => Abs(AccelPhaseVelocity(generated[1].physics, GeneratedPhases,
                                  GeneratedPhases.accelEndS)
                 - peakVelocity(generated[1].physics, GeneratedPhases))
              <= 5

-----------------------------------------------------------------------------
(* Properties of the pointer and keyboard handlers (SpecSel).              *)

\* The hit radius of a handle, 9 px times the device pixel ratio, on the scale
\* of xDistance.
HitRadius(gr) == 9 * DevicePixelRatio * SpanOf(gr.bounds)

\* The bound a pointer at pointerX is to grab: the one strictly within the
\* hit radius, the closer one when both are, the start on a tie, none when
\* neither is.
BoundInReach(gr, pointerX) ==
    IF /\ xDistance(gr.bounds, pointerX, gr.selection[1]) < HitRadius(gr)
       /\ xDistance(gr.bounds, pointerX, gr.selection[2]) < HitRadius(gr)
    THEN IF xDistance(gr.bounds, pointerX, gr.selection[1])
                <= xDistance(gr.bounds, pointerX, gr.selection[2])
         THEN <<"start">> ELSE <<"end">>
    ELSE IF xDistance(gr.bounds, pointerX, gr.selection[1]) < HitRadius(gr)
    THEN <<"start">>
    ELSE IF xDistance(gr.bounds, pointerX, gr.selection[2]) < HitRadius(gr)
    THEN <<"end">>
    ELSE null

\* C15: a pointer-down strictly within the hit radius of a bound of the
\* selection enters the drag mode of that bound and leaves the selection as
\* it is; with both bounds in reach the closer one is taken, the start on a
\* tie; with neither in reach no handle is grabbed.
HandleDetectionOnPointerDown ==
    [][\A g \in GraphIds : \A pointerId \in PointerIds : \A xPx \in SelectorXs :
          (/\ PointerDown(g, pointerId, xPx)
           /\ graphs[g].times > 0
           /\ graphs[g].selection # null)
            => IF BoundInReach(graphs[g], xPx) # null
               THEN /\ graphs'[g].dragMode = BoundInReach(graphs[g], xPx)
                    /\ graphs'[g].selection = graphs[g].selection
               ELSE graphs'[g].dragMode \notin {<<"start">>, <<"end">>}]_vars

\* The end handle was grabbed by a pointer on it, with the start bound in
\* reach as well.
EndGrabbedWithBothInReach ==
    /\ last.op = "grab"
    /\ graphs[last.graph].dragMode = <<"end">>
    /\ graphs[last.graph].selection[1] < graphs[last.graph].selection[2]
    /\ last.t = <<graphs[last.graph].selection[2]>>
    /\ xDistance(graphs[last.graph].bounds,
                 graphs[last.graph].bounds.plotLeft,
                 graphs[last.graph].bounds.xMin
                    + graphs[last.graph].selection[2] - graphs[last.graph].selection[1])
          < HitRadius(graphs[last.graph])

\* The time domain of the data of a graph runs from the first sample, at
\* time 0, to the last one.
DomainEnd(gr) == (gr.times - 1) * TicksPerSample

\* The time under a pointer at xPx, clamped to the time domain of the data.
ClickTime(gr, xPx) == clamp(pxToX(gr.bounds, xPx), 0, DomainEnd(gr))

\* The window the store holds for a graph.
WindowOf(st, g) ==
    IF g = "force" THEN st.measurement.forceWindow ELSE st.measurement.velocityWindow

\* A pointer at xPx is in reach of no handle of the graph.
NoHandleInReach(gr, xPx) ==
    IF gr.selection = null THEN TRUE ELSE BoundInReach(gr, xPx) = null

\* C16: a pointer-down that hits no handle on a graph with data replaces the
\* selection, if any, by the zero-width interval {t, t} at the click time t
\* clamped to the time domain, enters selecting-new, and publishes that
\* interval through the callback.
PointerDownElsewhereCreates ==
    [][\A g \in GraphIds : \A pointerId \in PointerIds : \A xPx \in SelectorXs :
          (/\ PointerDown(g, pointerId, xPx)
           /\ graphs[g].times > 0
           /\ NoHandleInReach(graphs[g], xPx))
            => /\ graphs'[g].selection = <<ClickTime(graphs[g], xPx), ClickTime(graphs[g], xPx)>>
               /\ graphs'[g].dragMode = <<"new">>
               /\ last'.called
               /\ last'.arg = <<ClickTime(graphs[g], xPx), ClickTime(graphs[g], xPx)>>
               /\ WindowOf(state', g) = last'.arg]_vars

\* A pointer-down on played data created a zero-width selection and
\* published it.
ZeroWidthCreated ==
    /\ last.op = "create"
    /\ last.t # null
    /\ last.t[1] > 0
    /\ graphs[last.graph].selection = <<last.t[1], last.t[1]>>
    /\ graphs[last.graph].dragMode = <<"new">>
    /\ WindowOf(state, last.graph) = <<last.t[1], last.t[1]>>

\* A bound of the selection after a step that the step wrote: a value the
\* selection did not hold before.
BoundWritten(before, after, k) ==
    IF before = null THEN TRUE ELSE after[k] # before[1] /\ after[k] # before[2]

ReleaseEndsDrag ==
    [][\A g \in GraphIds :
          /\ \A pointerId \in PointerIds :
                (PointerUp(g, pointerId) /\ graphs[g].draggingPointerId = <<pointerId>>)
                    => /\ graphs'[g].dragMode = null
                       /\ graphs'[g].draggingPointerId = null
                       /\ graphs'[g].selection = graphs[g].selection
          /\ (graphs[g].draggingPointerId = null /\ graphs'[g].draggingPointerId # null)
                => (last'.graph = g /\ last'.op \in {"create", "grab"})
          /\ \A pointerId \in PointerIds : \A xPx \in SelectorXs :
                (PointerMove(g, pointerId, xPx) /\ graphs[g].draggingPointerId = null)
                    => graphs'[g].selection = graphs[g].selection]_vars

\* The dragging pointer was released over a selection of some width.
ReleasedOverSelection ==
    /\ last.op = "release"
    /\ graphs[last.graph].selection # null
    /\ graphs[last.graph].selection[1] < graphs[last.graph].selection[2]
    /\ graphs[last.graph].dragMode = null
    /\ graphs[last.graph].draggingPointerId = null

\* The step of a key, in ticks: 0.02 s, 0.01 s with Alt, to the left for
\* ArrowLeft.
KeyDelta(key, altKey) ==
    (IF key = "ArrowLeft" THEN -1 ELSE 1) * (IF altKey THEN Ms(10) ELSE Ms(20))

\* The selection with one bound moved by the step of the key and clamped to
\* the time domain, the other bound as it was.
KeyMoved(gr, key, altKey, shiftKey) ==
    IF shiftKey
    THEN <<clamp(gr.selection[1] + KeyDelta(key, altKey), 0, DomainEnd(gr)),
           gr.selection[2]>>
    ELSE <<gr.selection[1],
           clamp(gr.selection[2] + KeyDelta(key, altKey), 0, DomainEnd(gr))>>

\* C19 as stated: with a selection, an arrow key leaves the selection with its
\* end bound (its start bound with Shift) moved by the step and clamped and
\* with its other bound as it was; any other key changes nothing.
KeyMovesOneBound ==
    [][\A g \in GraphIds : \A key \in Keys : \A altKey, shiftKey \in BOOLEAN :
          (/\ KeyDown(g, key, altKey, shiftKey)
           /\ graphs[g].times > 0
           /\ graphs[g].selection # null)
            => IF key \in {"ArrowLeft", "ArrowRight"}
               THEN graphs'[g].selection = KeyMoved(graphs[g], key, altKey, shiftKey)
               ELSE graphs'[g] = graphs[g] /\ state' = state]_vars

\* C19: with a selection, an arrow key moves the end bound (the start bound
\* with Shift) by 0.02 s (0.01 s with Alt), clamped to the time domain, keeps
\* the other bound, and selects and publishes the two values in ascending
\* order: a bound moved across the other one becomes the other bound.  Any
\* other key changes nothing.
KeyMovesOneBoundNormalized ==
    [][\A g \in GraphIds : \A key \in Keys : \A altKey, shiftKey \in BOOLEAN :
          (/\ KeyDown(g, key, altKey, shiftKey)
           /\ graphs[g].times > 0
           /\ graphs[g].selection # null)
            => IF key \in {"ArrowLeft", "ArrowRight"}
               THEN /\ graphs'[g].selection =
                        normalizeSelection(KeyMoved(graphs[g], key, altKey, shiftKey))
                    /\ last'.called /\ last'.arg = graphs'[g].selection
               ELSE graphs'[g] = graphs[g] /\ state' = state]_vars

\* ArrowLeft on a selection of no width at the position of a press: the end
\* bound moved below the start bound, and the two changed places.
NudgedBelowStart ==
    /\ last.op = "nudge"
    /\ last.arg = <<pxToX(graphs[last.graph].bounds, PressX) - Ms(20),
                    pxToX(graphs[last.graph].bounds, PressX)>>

-----------------------------------------------------------------------------
(* Properties of a nudge without a selection (Spec).                       *)

\* The interval a nudge starts from when nothing is selected: 20 % to 80 % of
\* the motion window, or 20 % to 40 % of the time domain without one.
NudgeSeed(gr) ==
    IF gr.motionWindow # null
    THEN <<gr.motionWindow[1] + Fifth(gr.motionWindow[2] - gr.motionWindow[1]),
           gr.motionWindow[2] - Fifth(gr.motionWindow[2] - gr.motionWindow[1])>>
    ELSE <<Fifth(DomainEnd(gr)), 2 * Fifth(DomainEnd(gr))>>

\* C20: a nudge on a graph with data and no selection starts from the seeded
\* interval (20 % to 80 % of the motion window if there is one, else 20 % to
\* 40 % of the time domain), applies the step of the key to the chosen bound
\* as a nudge of an existing selection does, and publishes the result.
NudgeSeedsSelection ==
    [][\A g \in GraphIds : \A key \in {"ArrowLeft", "ArrowRight"} :
       \A altKey, shiftKey \in BOOLEAN :
          (/\ KeyDown(g, key, altKey, shiftKey)
           /\ graphs[g].times > 0
           /\ graphs[g].selection = null)
            => /\ graphs'[g].selection =
                    normalizeSelection(
                        KeyMoved([graphs[g] EXCEPT !.selection = NudgeSeed(graphs[g])],
                                 key, altKey, shiftKey))
               /\ last'.called /\ last'.arg = graphs'[g].selection]_vars

\* ArrowRight on a graph that shows a motion window and no selection: the
\* middle of the motion window, its end 0.02 s later.
SeededInMotionWindow ==
    /\ last.op = "nudge"
    /\ graphs[last.graph].motionWindow # null
    /\ graphs[last.graph].motionWindow[2] - graphs[last.graph].motionWindow[1] >= 5 * Ms(20)
    /\ last.arg = <<NudgeSeed(graphs[last.graph])[1],
                    NudgeSeed(graphs[last.graph])[2] + Ms(20)>>

\* ArrowRight on the graph of a cart that did not move, nothing selected:
\* 20 % to 40 % of the trial, its end 0.02 s later.
SeededInTimeDomain ==
    /\ last.op = "nudge"
    /\ graphs[last.graph].motionWindow = null
    /\ DomainEnd(graphs[last.graph]) = DefaultDurationS
    /\ last.arg = <<NudgeSeed(graphs[last.graph])[1],
                    NudgeSeed(graphs[last.graph])[2] + Ms(20)>>

-----------------------------------------------------------------------------
(* Properties of the noise of the signals (SpecNoise).                     *)

\* Two calls of generateTrialSignals got the same physics and duration.
SameTrial(a, b) ==
    /\ a.physics = b.physics
    /\ DurationOf(a.options) = DurationOf(b.options)

\* Two calls returned the same forceN and the same velocityMps.
SameOutput(a, b) == a.signals = b.signals

\* C13: two calls of generateTrialSignals for the same trial return the same
\* forceN and velocityMps if noise is disabled in both, whatever their seeds,
\* and if noise is enabled in both and their seeds are the same.
ReproducibleSynthesis ==
    \A i, j \in 1..Len(generated) :
        (/\ SameTrial(generated[i], generated[j])
         /\ generated[i].options.noiseEnabled = generated[j].options.noiseEnabled
         /\ (generated[i].options.noiseEnabled
                => generated[i].options.seed = generated[j].options.seed))
            => SameOutput(generated[i], generated[j])

\* Two calls for a cart that moves, without noise and with two seeds.
TwoSeedsWithoutNoise ==
    /\ Len(generated) = 2
    /\ SameTrial(generated[1], generated[2])
    /\ generated[1].physics.moved
    /\ ~generated[1].options.noiseEnabled /\ ~generated[2].options.noiseEnabled
    /\ generated[1].options.seed # generated[2].options.seed
    /\ Len(generated[1].signals.forceN) > 1
    /\ SameOutput(generated[1], generated[2])

\* Two calls with noise and with two seeds, which return different noise.
TwoSeedsWithNoise ==
    /\ Len(generated) = 2
    /\ SameTrial(generated[1], generated[2])
    /\ generated[1].options.noiseEnabled /\ generated[2].options.noiseEnabled
    /\ generated[1].options.seed # generated[2].options.seed
    /\ generated[1].signals.forceNoise # generated[2].signals.forceNoise

-----------------------------------------------------------------------------
(* Properties of a graph without data (SpecSel).                           *)

\* C21: on a graph without data a pointer-down, a pointer-move and a key
\* leave the graph as it is, selection and drag mode included, invoke no
\* callback and leave the store as it is.
EventsWithoutDataIgnored ==
    [][\A g \in GraphIds :
          (/\ graphs[g].times = 0
           /\ \/ \E pointerId \in PointerIds : \E xPx \in SelectorXs :
                    PointerDown(g, pointerId, xPx) \/ PointerMove(g, pointerId, xPx)
              \/ \E key \in Keys : \E altKey, shiftKey \in BOOLEAN :
                    KeyDown(g, key, altKey, shiftKey))
            => /\ graphs'[g] = graphs[g]
               /\ ~last'.called
               /\ state' = state]_vars

\* A key was pressed on the force graph before any trial gave it data.
KeyPressedWithoutData ==
    /\ nudges > 0
    /\ graphs["force"].times = 0
    /\ graphs["force"].selection = null
    /\ graphs["force"].dragMode = null

-----------------------------------------------------------------------------
(* Properties of a trial that replaces another (SpecReset).                *)

\* C22: when Run Trial has run, whatever was selected and measured before,
\* the two windows and the two measurements of the store are null and
\* neither graph has a selection.
RunTrialClearsIntervals ==
    [][state'.nextTrialId # state.nextTrialId
        => /\ state'.measurement.forceWindow = null
           /\ state'.measurement.velocityWindow = null
           /\ state'.measurement.forceMeanN = null
           /\ state'.measurement.accelerationMps2 = null
           /\ \A g \in GraphIds : graphs'[g].selection = null]_vars

\* The second trial was run during a drag on the force graph, which had a
\* selection from the pointer-down on: the drag goes on and the selection is
\* gone.
RunDuringDrag ==
    /\ Len(trialRun) = 2
    /\ graphs["force"].draggingPointerId # null
    /\ graphs["force"].selection = null
    /\ state.measurement.forceWindow = null

-----------------------------------------------------------------------------
(* Properties of the table of records (SpecTable).                         *)

\* The records of a list that are not of trial id, in the order of the list.
RECURSIVE RecordsNotOf(_, _)
RecordsNotOf(records, id) ==
    IF records = <<>> THEN <<>>
    ELSE IF Head(records).trial_id = id THEN RecordsNotOf(Tail(records), id)
    ELSE <<Head(records)>> \o RecordsNotOf(Tail(records), id)

\* C23: Add Trial, when it adds, appends one record after the records there
\* are and leaves those as they are; the remove button of trial id leaves the
\* records of the other trials, in their order, and no record of trial id;
\* Run Trial, a frame of the playback, the events of the selectors and a
\* change of the scenario leave the list as it is.
TableAppendsAndRemovesById ==
    [][/\ AddTrial
            => \/ state'.trialRecords = state.trialRecords
               \/ /\ Len(state'.trialRecords) = Len(state.trialRecords) + 1
                  /\ SubSeq(state'.trialRecords, 1, Len(state.trialRecords))
                        = state.trialRecords
       /\ \A id \in 1..MaxRuns :
            RemoveTrial(id) => state'.trialRecords = RecordsNotOf(state.trialRecords, id)
       /\ (\/ RunTrialWithin(MaxRuns, MaxPendingFrames)
           \/ \E dt \in FrameDts : Animate(dt)
           \/ ScenarioChange("cart_plus_pad")
           \/ \E g \in GraphIds : PointerDown(g, 1, PressX) \/ PointerMove(g, 1, DragX))
            => state'.trialRecords = state.trialRecords]_vars

\* The record of the second trial was appended after the record of the
\* first, and the remove button of either trial has a record to leave.
TwoTrialsRecorded ==
    /\ Len(state.trialRecords) = 2
    /\ state.trialRecords[1].trial_id = 1
    /\ state.trialRecords[2].trial_id = 2

-----------------------------------------------------------------------------
(* Properties of the playback (SpecPlay).                                  *)

\* The time of the last sample of the trial of the machine view.
TrialDuration ==
    SignalsOf(machineView.trial[1]).timesS[Len(SignalsOf(machineView.trial[1]).timesS)]

\* C24: the cursor of the playback is at least 0, and at most the duration
\* of the trial of the machine view once it has one.
CursorWithinTrial ==
    /\ machineView.currentTimeS >= 0
    /\ machineView.trial # null => machineView.currentTimeS <= TrialDuration

\* A frame that would have passed the end of the trial left the cursor at
\* the end.
CursorStoppedAtEnd ==
    /\ machineView.trial # null
    /\ machineView.lastFrame # null
    /\ machineView.currentTimeS = TrialDuration
    /\ ~machineView.playing

\* C25: a frame that takes the cursor to the end of the trial, a click on
\* the play button during the playback and an input on the time slider leave
\* the playing flag false; while it is false a frame that was requested
\* returns with the cursor where it was and requests no other frame; and the
\* flag becomes true again only by a click on the play button or on Run
\* Trial.
PlaybackSelfCancels ==
    [][/\ \A dt \in PlayFrameDts :
            (Animate(dt) /\ machineView.trial # null
                /\ machineView'.currentTimeS >= TrialDuration)
                => ~machineView'.playing
       /\ (PlayClickWithin(MaxPlayFrames) /\ machineView.playing) => ~machineView'.playing
       /\ \A timeS \in PlaySliderTimes : SliderInput(timeS) => ~machineView'.playing
       /\ \A dt \in PlayFrameDts :
            (Animate(dt) /\ ~machineView.playing)
                => /\ machineView'.currentTimeS = machineView.currentTimeS
                   /\ rafQueue' = rafQueue - 1
       /\ (~machineView.playing /\ machineView'.playing)
            => \/ PlayClickWithin(MaxPlayFrames)
               \/ RunTrialWithin(MaxRuns, MaxPlayFrames)]_vars

\* The playback was paused in the middle of the trial, and the frame it had
\* requested has returned.
PausedFrameReturned ==
    /\ machineView.trial # null
    /\ ~machineView.playing
    /\ machineView.lastFrame # null
    /\ machineView.currentTimeS > 0
    /\ machineView.currentTimeS < TrialDuration
    /\ machineView.currentTimeS \notin PlaySliderTimes
    /\ rafQueue = 0

-----------------------------------------------------------------------------
(* Properties of linearRegression (SpecFit).                               *)

\* Every x of the array is the same number.
AllEqual(x) == \A i \in 1..Len(x) : x[i] = x[1]

\* A Number that came out of a division by zero is in the FitResult.
DividedByZero(fit) ==
    DivByZero64 \in {fit.slope, fit.intercept, fit.r2}

\* C26: linearRegression returns null whenever x and y differ in length, there
\* are fewer than 2 points, or all x are equal; otherwise it returns a
\* FitResult whose count is the number of points; and nothing in what it
\* returns was divided by zero.
DegenerateFitIsNull ==
    generated # null
        => LET call == generated[1]
           IN  IF Len(call.x) # Len(call.y) \/ Len(call.x) < 2 \/ AllEqual(call.x)
               THEN call.result = null
               ELSE /\ call.result # null
                    /\ call.result[1].count = Len(call.x)
                    /\ ~DividedByZero(call.result[1])

\* linearRegression was called with three points of the same x, 0.1.
ThreeEqualDecimalX ==
    /\ generated # null
    /\ Len(generated[1].x) = 3
    /\ Len(generated[1].y) = 3
    /\ AllEqual(generated[1].x)
    /\ generated[1].x[1] = Decimal64(1, 10)

\* C27: when all y are identical and the x are not all equal, linearRegression
\* returns r2 exactly 1, slope 0 and the common y as intercept, and has not
\* divided by zero.
FlatFitIsExact ==
    generated # null
        => LET call == generated[1]
           IN  (/\ Len(call.x) = Len(call.y)
                /\ Len(call.x) >= 2
                /\ AllEqual(call.y)
                /\ ~AllEqual(call.x))
                   => /\ call.result # null
                      /\ call.result[1].r2 = FromInt64(1)
                      /\ call.result[1].slope = Zero64
                      /\ call.result[1].intercept = call.y[1]
                      /\ ~DividedByZero(call.result[1])

\* linearRegression was called with three points of the same whole y and
\* different x, and returned r2 = 1.
FlatWholeY ==
    /\ generated # null
    /\ Len(generated[1].x) = 3
    /\ Len(generated[1].y) = 3
    /\ AllEqual(generated[1].y)
    /\ ~AllEqual(generated[1].x)
    /\ generated[1].y[1] = FromInt64(3)
    /\ generated[1].result # null
    /\ generated[1].result[1].r2 = FromInt64(1)

-----------------------------------------------------------------------------
(* Properties of linearRegression on a line (SpecLine).                    *)

\* The absolute value of a Number.
Abs64(a) == [a EXCEPT !.sign = 0]

\* The tolerance of nearlyEqual in regression.test.js, 1e-9.
Tolerance == Decimal64(1, 1000000000)

\* Math.abs(actual - expected) <= tolerance
nearlyEqual(actual, expected) ==
    /\ actual # DivByZero64
    /\ ~Less64(Tolerance, Abs64(Sub64(actual, expected)))

\* The x of the call are not all the same.
DistinctX(call) == \E i \in 1..Len(call.x) : call.x[i] # call.x[1]

\* C28 as stated: for n >= 2 points on the line y = m * x + b with at least
\* two distinct x, linearRegression returns slope = m, intercept = b, r2 = 1
\* and count = n.
LineFitIsExact ==
    (generated # null /\ DistinctX(generated[1]))
        => /\ generated[1].result # null
           /\ generated[1].result[1].slope = FromInt64(generated[1].m)
           /\ generated[1].result[1].intercept = FromInt64(generated[1].b)
           /\ generated[1].result[1].r2 = FromInt64(1)
           /\ generated[1].result[1].count = Len(generated[1].x)

\* C28, amended: for n >= 2 points on the line y = m * x + b with at least two
\* distinct x, linearRegression returns count = n and a slope, an intercept
\* and an r2 within 1e-9 of m, b and 1; for the points 0..4 the three are
\* exactly m, b and 1.
LineFitIsNear ==
    (generated # null /\ DistinctX(generated[1]))
        => /\ generated[1].result # null
           /\ nearlyEqual(generated[1].result[1].slope, FromInt64(generated[1].m))
           /\ nearlyEqual(generated[1].result[1].intercept, FromInt64(generated[1].b))
           /\ nearlyEqual(generated[1].result[1].r2, FromInt64(1))
           /\ generated[1].result[1].count = Len(generated[1].x)
           /\ generated[1].x = <<0, 1, 2, 3, 4>>
                => /\ generated[1].result[1].slope = FromInt64(generated[1].m)
                   /\ generated[1].result[1].intercept = FromInt64(generated[1].b)
                   /\ generated[1].result[1].r2 = FromInt64(1)

\* linearRegression was called with the points -3, -3, -2 of a line and
\* returned a slope that is not the line's.
LineFitRounded ==
    /\ generated # null
    /\ generated[1].x = <<-3, -3, -2>>
    /\ generated[1].result # null
    /\ generated[1].result[1].slope # FromInt64(generated[1].m)

-----------------------------------------------------------------------------
(* Properties of the functions of a window (SpecWindow).                   *)

\* a <= b
AtMost64(a, b) == a = b \/ Less64(a, b)

\* The indexes of the samples of the call whose time is between the two
\* bounds of the call, whichever is the lower, both included.
IndexesInside(call) ==
    {i \in 1..Len(call.times) :
        \/ AtMost64(call.startS, call.times[i]) /\ AtMost64(call.times[i], call.endS)
        \/ AtMost64(call.endS, call.times[i]) /\ AtMost64(call.times[i], call.startS)}

\* The k-th index of a set of indexes, in ascending order.
KthIndex(indexes, k) ==
    CHOOSE j \in indexes : Cardinality({i \in indexes : i <= j}) = k

\* The samples inside the window of the call, in their original order.
SamplesInside(call) ==
    [times |-> [k \in 1..Cardinality(IndexesInside(call)) |->
                    call.times[KthIndex(IndexesInside(call), k)]] \o <<>>,
     values |-> [k \in 1..Cardinality(IndexesInside(call)) |->
                    call.values[KthIndex(IndexesInside(call), k)]] \o <<>>]

\* C29: sliceWindow(times, values, a, b) returns, in the original order and as
\* two arrays of the same length, exactly the samples with min(a, b) <= time
\* <= max(a, b), and the same for b, a; meanInWindow and
\* linearRegressionInWindow return mean and linearRegression of exactly these
\* samples.
WindowFunctionsUseSlice ==
    generated # null
        => LET call == generated[1]
           IN  /\ call.call = "sliceWindow"
                    => /\ call.result = SamplesInside(call)
                       /\ Len(call.result.times) = Len(call.result.values)
                       /\ call.result
                            = sliceWindow64(call.times, call.values, call.endS, call.startS)
               /\ call.call = "meanInWindow"
                    => call.result = mean64(SamplesInside(call).values)
               /\ call.call = "linearRegressionInWindow"
                    => call.result
                         = linearRegression(SamplesInside(call).times,
                                            SamplesInside(call).values)

\* linearRegressionInWindow was called on the six samples of the test with
\* the bounds 3 and 1, in this order, and has fitted the three samples at 1, 2
\* and 3.
FittedBetweenSwappedBounds ==
    /\ generated # null
    /\ generated[1].call = "linearRegressionInWindow"
    /\ Len(generated[1].times) = 6
    /\ generated[1].startS = FromInt64(3)
    /\ generated[1].endS = FromInt64(1)
    /\ generated[1].result # null
    /\ generated[1].result[1].count = 3
    /\ generated[1].result[1].slope = FromInt64(2)

-----------------------------------------------------------------------------
(* Properties of the normalization (SpecNormalize).                        *)

\* The interval of the two bounds, the lower first.
Ordered(a, b) == IF a <= b THEN <<a, b>> ELSE <<b, a>>

\* C30: normalizing is idempotent and independent of the order of the bounds:
\* normalize({a, b}) = normalize({b, a}) = {min(a, b), max(a, b)}, an ordered
\* interval is returned with the same bounds, and normalizing what was
\* normalized returns it again.
NormalizeIdempotentAndSymmetric ==
    /\ \A k \in 1..Len(generated) :
            generated[k].selection # null
                => /\ generated[k].result
                        = Ordered(generated[k].selection[1], generated[k].selection[2])
                   /\ generated[k].result
                        = NormalizeBy(generated[k].call,
                                      <<generated[k].selection[2], generated[k].selection[1]>>)
                   /\ generated[k].selection[1] <= generated[k].selection[2]
                        => generated[k].result = generated[k].selection
    /\ Len(generated) = 2 => generated[2].result = generated[1].result

\* normalize was called on {startS: 5, endS: 1} and again on what it returned.
NormalizedTwice ==
    /\ Len(generated) = 2
    /\ generated[1].call = "normalize"
    /\ generated[1].selection = <<Ms(5000), Ms(1000)>>
    /\ generated[2].selection = <<Ms(1000), Ms(5000)>>
    /\ generated[2].result = <<Ms(1000), Ms(5000)>>

-----------------------------------------------------------------------------
(* Properties of computeTrialPhysics (SpecPhysics).                        *)

\* The friction of the preset and the scenario of an input, read from the
\* table of presets.
FrictionOf(input) == PRESETS[input.presetId].scenario[input.scenario]

\* The pulling force of an input: the hanging mass times g.
PullOf(input) == FMul(input.hangingMassKg, G)

\* The pulling force is at most the start threshold, or at most the drag, so
\* that the net force over the (positive) accelerated mass is not positive.
HeldBack(input) ==
    \/ FLe(PullOf(input), FrictionOf(input).startThresholdN)
    \/ FLe(PullOf(input), FrictionOf(input).dragN)

\* C31: computeTrialPhysics reports no motion exactly when the pulling force is
\* at most the start threshold of the scenario or the net acceleration is not
\* positive: then moved is false, accelerationMps2 is 0 and travelTimeS is
\* null; otherwise moved is true, accelerationMps2 is positive and travelTimeS
\* is not null.
MotionExactlyWhenPulled ==
    \A k \in 1..Len(generated) :
        IF HeldBack(generated[k].input)
        THEN /\ ~generated[k].result.moved
             /\ generated[k].result.accelerationMps2 = FInt(0)
             /\ generated[k].result.travelTimeS = null
        ELSE /\ generated[k].result.moved
             /\ FLt(FInt(0), generated[k].result.accelerationMps2)
             /\ generated[k].result.travelTimeS # null

\* computeTrialPhysics was called with a pulling force over the start
\* threshold and under the drag, and reported no motion.
PulledUnderDrag ==
    /\ Len(generated) = 1
    /\ ~FLe(PullOf(generated[1].input), FrictionOf(generated[1].input).startThresholdN)
    /\ FLe(PullOf(generated[1].input), FrictionOf(generated[1].input).dragN)
    /\ ~generated[1].result.moved

\* The two calls have the same preset and the same hanging mass, the first
\* for the cart alone and the second for the cart with the pad.
SameCartWithPad(first, second) ==
    /\ first.input.scenario = "cart_only"
    /\ second.input.scenario = "cart_plus_pad"
    /\ first.input.presetId = second.input.presetId
    /\ first.input.hangingMassKg = second.input.hangingMassKg

\* C32: for every preset and hanging mass for which both scenarios move,
\* cart_plus_pad has a strictly lower acceleration and a strictly larger
\* system mass than cart_only.
PadSlowsTheCart ==
    (/\ Len(generated) = 2
     /\ SameCartWithPad(generated[1], generated[2])
     /\ generated[1].result.moved
     /\ generated[2].result.moved)
        => /\ FLt(generated[2].result.accelerationMps2, generated[1].result.accelerationMps2)
           /\ FLt(generated[1].result.config.systemMassKg,
                  generated[2].result.config.systemMassKg)

\* computeTrialPhysics was called for the medium preset and 0.4 kg, without
\* and with the pad, and both carts moved.
MediumCartWithPadMoved ==
    /\ Len(generated) = 2
    /\ SameCartWithPad(generated[1], generated[2])
    /\ generated[1].input.presetId = "medium"
    /\ generated[1].input.hangingMassKg = HANGING_MASS_STEPS_KG[4]
    /\ generated[1].result.moved
    /\ generated[2].result.moved

-----------------------------------------------------------------------------
(* Properties of the store and the graphs together (SpecSync).             *)

\* C33: after every event handler the selection of the force graph is the
\* stored forceWindow and the selection of the velocity graph is the stored
\* velocityWindow, both null or the same bounds.
StoreAndGraphsInSync ==
    /\ graphs["force"].selection = state.measurement.forceWindow
    /\ graphs["velocity"].selection = state.measurement.velocityWindow

\* A window dragged open on the velocity graph is the stored velocityWindow,
\* on a trial whose cursor has been moved by a frame or by the slider.
DraggedWindowStored ==
    /\ graphs["velocity"].selection # null
    /\ graphs["velocity"].selection[1] < graphs["velocity"].selection[2]
    /\ state.measurement.velocityWindow = graphs["velocity"].selection
    /\ state.measurement.forceWindow = null
    /\ machineView.currentTimeS > 0

-----------------------------------------------------------------------------
(* Properties of the ids of the records (SpecTable).                       *)

\* C34: each trial is recorded at most once: no two records of trialRecords
\* share a trial_id, and so a removal by id takes at most one record away.
TrialRecordedOnce ==
    /\ [](\A i, j \in 1..Len(state.trialRecords) :
            state.trialRecords[i].trial_id = state.trialRecords[j].trial_id => i = j)
    /\ [][\A trialId \in 1..MaxRuns :
            RemoveTrial(trialId) => Len(state'.trialRecords) >= Len(state.trialRecords) - 1]_vars

-----------------------------------------------------------------------------
(* Properties of the frames of the playback (SpecPlay).                    *)

\* C35: at most one animate callback is requested and not yet run, whatever
\* the order of play, pause, slider input, Run Trial and frames.
AtMostOneFramePending == rafQueue <= 1

-----------------------------------------------------------------------------
(* Properties of a playback whose frames keep arriving (SpecLive).         *)

\* The playback of a trial is on.
Playing == machineView.trial # null /\ machineView.playing

\* The playback is over: the cursor is at the end of the trial and the flag is
\* false.
PlaybackOver ==
    /\ machineView.trial # null
    /\ machineView.currentTimeS = TrialDuration
    /\ ~machineView.playing

\* The playback was stopped before the end, by the play button or the slider.
PlaybackStopped ==
    /\ machineView.trial # null
    /\ ~machineView.playing
    /\ machineView.currentTimeS < TrialDuration

\* C36: once the playback of a trial is on, with frames that keep arriving a
\* positive time apart, either a pause or an input on the slider stops it, or
\* the cursor reaches the duration of the trial and the playing flag becomes
\* false (a Run Trial in between starts the playback again, and the same
\* holds of it); and a frame that leaves the flag false requests no other
\* frame.
PlaybackTerminates ==
    /\ Playing ~> (PlaybackOver \/ PlaybackStopped)
    /\ [][\A dt \in LiveFrameDts :
            (Animate(dt) /\ ~machineView'.playing) => rafQueue' = rafQueue - 1]_vars

\* The playback of the last trial has run to the end in frames and no frame
\* is requested.
PlayedToTheEnd ==
    /\ PlaybackOver
    /\ machineView.lastFrame # null
    /\ Len(trialRun) = MaxRuns
    /\ rafQueue = 0

-----------------------------------------------------------------------------
(* Properties of the scenario and the preset (SpecSettings).               *)

\* C37: through the changes of scenario and the changes of preset that the
\* page offers, the scenario cart_only has the preset low; and a change to
\* cart_plus_pad keeps the preset.
CartOnlyHasLowPreset ==
    /\ [](state.scenario = "cart_only" => state.presetId = "low")
    /\ [][ScenarioChange("cart_plus_pad") => state'.presetId = state.presetId]_vars

\* The scenario is cart_only again, with the preset low, after a trial was
\* run with the pad under another preset.
BackToCartOnly ==
    /\ state.scenario = "cart_only"
    /\ state.presetId = "low"
    /\ \E i \in 1..Len(trialRun) :
            trialRun[i].scenario = "cart_plus_pad" /\ trialRun[i].presetId # "low"

-----------------------------------------------------------------------------
(* Properties of the pointer that owns a drag (SpecSel).                   *)

\* C38: while a pointer owns a drag, a pointer-move, a pointer-up and a
\* pointer-cancel of another pointer leave the selection, the drag mode and
\* the owning pointer as they are and invoke no callback; and a graph has a
\* drag mode exactly while it has a dragging pointer.
OtherPointersIgnored ==
    /\ [](\A g \in GraphIds :
            graphs[g].dragMode # null <=> graphs[g].draggingPointerId # null)
    /\ [][\A g \in GraphIds : \A pointerId \in PointerIds :
            (/\ graphs[g].draggingPointerId # null
             /\ graphs[g].draggingPointerId # <<pointerId>>
             /\ \/ \E xPx \in SelectorXs : PointerMove(g, pointerId, xPx)
                \/ PointerUp(g, pointerId))
                => /\ graphs'[g].selection = graphs[g].selection
                   /\ graphs'[g].dragMode = graphs[g].dragMode
                   /\ graphs'[g].draggingPointerId = graphs[g].draggingPointerId
                   /\ ~last'.called
                   /\ state' = state]_vars

\* An event left the selectors alone while the second pointer owned a drag of
\* the end handle over a selection of some width.
EventDuringDragOfSecondPointer ==
    /\ last = NoEvent
    /\ graphs["force"].draggingPointerId = <<2>>
    /\ graphs["force"].dragMode = <<"end">>
    /\ graphs["force"].selection # null
    /\ graphs["force"].selection[1] < graphs["force"].selection[2]

====
